---- MODULE Spec2Model ----
(***************************************************************************)
(* A model of the portfolio platform's request pipeline:                   *)
(*   - the KYC risk assessment (kyc/risk_assessor.py, kyc/models.py,       *)
(*     kyc/constants.py) and the calculate_portfolio handler (main.py);    *)
(*   - the solve path of UnifiedPortfolioOptimizer                         *)
(*     (portfolio/unified_optimizer.py);                                   *)
(*   - SortinoOptimizer.optimize and its fallback                          *)
(*     (portfolio/sortino_optimizer.py).                                   *)
(*                                                                         *)
(* Units.  Questionnaire scores are integers 0..100.  A composite score    *)
(* is held in hundredths of a point (25.5 is 2550): every weighted sum     *)
(* 0.25h + 0.30l + 0.20e + 0.15f + 0.10g is a multiple of 0.05, so the     *)
(* sum, the 20% reduction (x * 0.8) and the caps are exact in hundredths.  *)
(* Binary floating-point rounding of the order of 1e-14 is not modelled.   *)
(***************************************************************************)
EXTENDS Integers, Sequences, FiniteSets, TLC

VARIABLES
    entry,                  \* which entry point the request came through
    responses_dict,         \* the questionnaire dictionary handed in
    pc,                     \* "call" | "returned" | "raised"
    risk_profile,           \* the RiskProfile returned by process_responses
    error,                  \* the exception raised, if any
    http_response,          \* what calculate_portfolio hands back
    optimizer_constructed,  \* SortinoPortfolioOptimizer() was executed
    optimizer_runs,         \* number of optimize_portfolio calls made
    \* UnifiedPortfolioOptimizer.optimize_portfolio
    u_pc,                   \* "idle" | "init" | "warmstart" | "refine" | "solved" | "done"
    u_kyc,                  \* the kyc_response argument
    u_universe,             \* category of each column of returns_data
    u_cov_matrix,           \* data_manager.cov_matrix
    u_investment_amount,    \* the investment_amount argument, in ILS
    u_cvxpy_available,      \* CVXPY_AVAILABLE
    u_params,               \* OptimizationParams
    u_cvxpy,                \* how the CVXPy stage ended: "none" | "unavailable" | "raised" | "optimal"
    u_initial_weights,      \* the start handed to the SciPy stage
    u_scipy,                \* how the SciPy stage ended
    u_solved,               \* what _solve_optimization did: weights or raise
    u_result,               \* the OptimizationResult
    \* SortinoOptimizer.optimize
    s_pc,                   \* "idle" | "init" | "minimized" | "raised" | "done"
    s_aggressiveness,       \* the aggressiveness argument, in 1/10000
    s_asset_names,          \* returns_data.columns
    s_sorted_indices,       \* the columns by mean return, best first
    s_bounds,               \* upper bound of each weight, in millionths
    s_x0,                   \* the initial guess
    s_solver,               \* how scipy.optimize.minimize ended
    s_weights,              \* the local variable weights
    s_result,               \* the returned dictionary
    \* AdvancedPortfolioOptimizer.optimize_portfolio
    a_pc,                   \* "idle" | "init" | "optimizing" | "weighted" | "raised" | "done"
    a_risk_level,           \* the risk_level argument
    a_duration_years,       \* investment_duration_years
    a_all_assets,           \* names returned by load_all_assets
    a_filtered_assets,      \* names kept by _filter_assets_by_duration
    a_constraints,          \* OptimizationConstraints
    a_solver,               \* how scipy.optimize.minimize ended
    a_weights,              \* optimal_weights
    a_result,               \* the OptimizationResult
    \* KYCRiskAssessor.process_responses in IEEE 754 double arithmetic
    f_pc,                   \* "idle" | "call" | "returned"
    f_responses,            \* the six answers
    f_profile,              \* the RiskProfile, composite_score as a double
    \* SortinoOptimizer.calculate_sortino_ratio
    r_pc,                   \* "idle" | "call" | "returned"
    r_returns_data,         \* self.returns_data: one row per period
    r_weights,              \* the weights argument
    r_risk_free_rate,       \* self.risk_free_rate
    r_sortino,              \* what the call returned
    \* ILSDataManager._process_ils_data
    i_pc,                   \* "idle" | "loaded" | "done" | "raised"
    i_raw_assets,           \* self.raw_assets, in file order
    i_exchange_rates,       \* self.exchange_rates: FX pair -> dates of the series
    i_risk_free_rate,       \* dates of self.risk_free_rate
    i_returns_data,         \* self.returns_data: columns and index
    i_error,                \* the exception the build ended with
    \* MarketDataManager
    d_now,                  \* datetime.now(), in units of 20 minutes
    d_memory_cache,         \* self._memory_cache
    d_cache_timestamps,     \* self._cache_timestamps
    d_disk,                 \* the .pkl files of cache_path: data and mtime
    d_returned,             \* the last call and what it returned
    \* threads sharing the MarketDataManager
    th_pc,                  \* thread -> the line of data_manager.py it is about to run
    th_asset,               \* thread -> asset_name of its load_asset_data call
    th_data,                \* thread -> its local cached_data / df
    th_result               \* thread -> how its last call ended and what it returned

kyc_vars == <<entry, responses_dict, pc, risk_profile, error, http_response,
              optimizer_constructed, optimizer_runs>>

uni_vars == <<u_pc, u_kyc, u_universe, u_cov_matrix, u_investment_amount,
              u_cvxpy_available, u_params, u_cvxpy,
              u_initial_weights, u_scipy, u_solved, u_result>>

sor_vars == <<s_pc, s_aggressiveness, s_asset_names, s_sorted_indices, s_bounds,
              s_x0, s_solver, s_weights, s_result>>

adv_vars == <<a_pc, a_risk_level, a_duration_years, a_all_assets,
              a_filtered_assets, a_constraints, a_solver, a_weights, a_result>>

flt_vars == <<f_pc, f_responses, f_profile>>

rat_vars == <<r_pc, r_returns_data, r_weights, r_risk_free_rate, r_sortino>>

\* the variables of the data layer and of the ratio computation
ils_vars == <<i_pc, i_raw_assets, i_exchange_rates, i_risk_free_rate,
              i_returns_data, i_error>>

th_vars == <<th_pc, th_asset, th_data, th_result>>

dm_vars == <<d_now, d_memory_cache, d_cache_timestamps, d_disk, d_returned,
             th_vars>>

ext_vars == <<rat_vars, ils_vars, dm_vars>>

vars == <<kyc_vars, uni_vars, sor_vars, adv_vars, flt_vars, ext_vars>>

\* A weight vector: weight i is num[i] / den
NoWeights == [num |-> <<>>, den |-> 1]

NoKyc ==
    [composite_score |-> 0, has_answers |-> FALSE, loss_tolerance |-> 0,
     horizon_score |-> 0, experience_score |-> 0, category_english |-> ""]

NoParams ==
    [risk_aversion_lambda |-> 0, cvar_penalty_alpha |-> 0, vol_penalty_beta |-> 0,
     concentration_penalty_gamma |-> 0, skewness_reward_delta |-> 0,
     target_volatility |-> 0, target_cvar |-> 0, max_volatility |-> 0,
     max_cvar |-> 0, equity_range |-> <<0, 0>>, max_single_asset |-> 0,
     risk_category |-> "", composite_score |-> 0]

NoScipy == [outcome |-> "none", success |-> FALSE, x |-> NoWeights]

NoSolved == [raised |-> FALSE, weights |-> NoWeights]

NoResult ==
    [weights |-> NoWeights, allocation_percentages |-> <<>>,
     allocation_ils_amounts |-> <<>>,
     risk_contributions |-> [num |-> <<>>, den |-> 1],
     total_investment_ils |-> 0,
     optimization_success |-> FALSE, risk_category |-> ""]

\* No call of UnifiedPortfolioOptimizer.optimize_portfolio is in progress
UniIdle ==
    /\ u_pc = "idle"
    /\ u_kyc = NoKyc
    /\ u_universe = <<>>
    /\ u_cov_matrix = <<>>
    /\ u_investment_amount = 0
    /\ u_cvxpy_available = FALSE
    /\ u_params = NoParams
    /\ u_cvxpy = "none"
    /\ u_initial_weights = NoWeights
    /\ u_scipy = NoScipy
    /\ u_solved = NoSolved
    /\ u_result = NoResult

NoSolver == [outcome |-> "none", success |-> FALSE, x |-> NoWeights]

NoSortinoResult ==
    [weights |-> [names |-> {}, num |-> <<>>, den |-> 1],
     aggressiveness |-> 0, optimization_success |-> FALSE]

\* No call of SortinoOptimizer.optimize is in progress
SortinoIdle ==
    /\ s_pc = "idle"
    /\ s_aggressiveness = 0
    /\ s_asset_names = <<>>
    /\ s_sorted_indices = <<>>
    /\ s_bounds = <<>>
    /\ s_x0 = NoWeights
    /\ s_solver = NoSolver
    /\ s_weights = NoWeights
    /\ s_result = NoSortinoResult

NoConstraints ==
    [max_single_asset |-> 0, min_single_asset |-> 0,
     max_category_allocation |-> <<>>, min_category_allocation |-> <<>>,
     max_volatility |-> [num |-> 0, den |-> 1]]

NoAdvancedResult ==
    [allocation |-> <<>>, optimization_success |-> FALSE,
     constraints_satisfied |-> FALSE]

\* No call of AdvancedPortfolioOptimizer.optimize_portfolio is in progress
AdvancedIdle ==
    /\ a_pc = "idle"
    /\ a_risk_level = 0
    /\ a_duration_years = 0
    /\ a_all_assets = <<>>
    /\ a_filtered_assets = <<>>
    /\ a_constraints = NoConstraints
    /\ a_solver = NoSolver
    /\ a_weights = NoWeights
    /\ a_result = NoAdvancedResult

NoFloatProfile ==
    [risk_level |-> 0, category_english |-> "", composite_score |-> <<>>,
     equity_range |-> <<0, 0>>, inconsistencies |-> <<>>]

\* No call of process_responses is being followed in double arithmetic
FloatIdle ==
    /\ f_pc = "idle"
    /\ f_responses = <<>>
    /\ f_profile = NoFloatProfile

NoSortino ==
    [kind |-> "none", used_floor |-> FALSE, divided_by_zero |-> FALSE]

\* No call of calculate_sortino_ratio is being followed
RatioIdle ==
    /\ r_pc = "idle"
    /\ r_returns_data = <<>>
    /\ r_weights = [num |-> <<>>, den |-> 1]
    /\ r_risk_free_rate = 0
    /\ r_sortino = NoSortino

NoReturnsData == [columns |-> <<>>, index |-> {}]

\* No ILSDataManager is being built
IlsIdle ==
    /\ i_pc = "idle"
    /\ i_raw_assets = <<>>
    /\ i_exchange_rates = <<>>
    /\ i_risk_free_rate = {}
    /\ i_returns_data = NoReturnsData
    /\ i_error = ""

NoCall == [op |-> "none"]

\* the threads that share one MarketDataManager
Threads == {1, 2}

NoOutcome == [outcome |-> "none", data |-> <<>>]

\* No thread is inside a call
ThreadsIdle ==
    /\ th_pc = [t \in Threads |-> "idle"]
    /\ th_asset = [t \in Threads |-> ""]
    /\ th_data = [t \in Threads |-> <<>>]
    /\ th_result = [t \in Threads |-> NoOutcome]

\* No MarketDataManager is being followed
DmIdle ==
    /\ d_now = 0
    /\ d_memory_cache = <<>>
    /\ d_cache_timestamps = <<>>
    /\ d_disk = <<>>
    /\ d_returned = NoCall
    /\ ThreadsIdle

\* Neither the data layer nor the ratio computation is being followed
ExtIdle == RatioIdle /\ IlsIdle /\ DmIdle

Min(a, b) == IF a <= b THEN a ELSE b
Max(a, b) == IF a >= b THEN a ELSE b
Abs(a) == IF a >= 0 THEN a ELSE -a

RECURSIVE SumSeq(_)
SumSeq(s) == IF s = <<>> THEN 0 ELSE Head(s) + SumSeq(Tail(s))

(***************************************************************************)
(* kyc/models.py, kyc/constants.py                                         *)
(***************************************************************************)

\* required_fields, which is also the field order of the KYCResponse dataclass
required_fields ==
    <<"horizon_score", "loss_tolerance", "experience_score",
      "financial_score", "goal_score", "sleep_score">>

FieldSet == {required_fields[i] : i \in 1..Len(required_fields)}

\* A dictionary value: an int (isinstance(value, int)) or something else
\* (a float such as 50.0, a string); v is its numeric reading.
IntVal(n) == [int |-> TRUE, v |-> n]
OtherVal(n) == [int |-> FALSE, v |-> n]

\* KYCResponse.__post_init__: the first field, in declaration order, whose
\* value is not an int in 0..100; 0 when every field passes.
PostInitBadAccepting101(d) ==
    LET bad == {i \in 1..Len(required_fields) :
                    LET val == d[required_fields[i]]
                    IN  ~val.int \/ val.v < 0 \/ val.v > 101}
    IN  IF bad = {} THEN 0 ELSE CHOOSE i \in bad : \A j \in bad : i <= j

PostInitBad(d) ==
    LET bad == {i \in 1..Len(required_fields) :
                    LET val == d[required_fields[i]]
                    IN  ~val.int \/ ~(0 <= val.v /\ val.v <= 100)}
    IN  IF bad = {} THEN 0 ELSE CHOOSE i \in bad : \A j \in bad : i <= j

KYCResponse(d) == [f \in FieldSet |-> d[f].v]

\* InconsistencyType and CONSISTENCY_RULES, in declaration order
RuleCondition(type, resp) ==
    CASE type = "SHORT_HORIZON_HIGH_RISK" ->
            resp.horizon_score < 30 /\ resp.loss_tolerance > 70
      [] type = "INEXPERIENCED_AGGRESSIVE" ->
            resp.experience_score < 30 /\ resp.goal_score > 80
      [] type = "LOW_CAPACITY_HIGH_APPETITE" ->
            resp.financial_score < 40 /\ resp.loss_tolerance > 60
      [] type = "SLEEP_LOSS_MISMATCH" ->
            Abs(resp.sleep_score - resp.loss_tolerance) > 40

CONSISTENCY_RULES ==
    << [type |-> "SHORT_HORIZON_HIGH_RISK",
        suggested_action |-> "reduce_risk_score", severity |-> "warning"],
       [type |-> "INEXPERIENCED_AGGRESSIVE",
        suggested_action |-> "cap_at_moderate", severity |-> "warning"],
       [type |-> "LOW_CAPACITY_HIGH_APPETITE",
        suggested_action |-> "reduce_to_conservative", severity |-> "error"],
       [type |-> "SLEEP_LOSS_MISMATCH",
        suggested_action |-> "use_conservative_score", severity |-> "warning"] >>

\* SCORING_WEIGHTS, in hundredths
SCORING_WEIGHTS ==
    [horizon |-> 25, loss_tolerance |-> 30, experience |-> 20,
     financial |-> 15, goal |-> 10]

\* RISK_CATEGORIES, in declaration order; score_range in points,
\* equity_range in percent
RISK_CATEGORIES ==
    << [name_en |-> "Ultra Conservative", score_range |-> <<0, 25>>,
        equity_range |-> <<5, 20>>],
       [name_en |-> "Conservative", score_range |-> <<26, 45>>,
        equity_range |-> <<15, 40>>],
       [name_en |-> "Moderate", score_range |-> <<46, 65>>,
        equity_range |-> <<30, 65>>],
       [name_en |-> "Aggressive", score_range |-> <<66, 85>>,
        equity_range |-> <<55, 80>>],
       [name_en |-> "Very Aggressive", score_range |-> <<86, 100>>,
        equity_range |-> <<70, 95>>] >>

CategoryByName(name) ==
    CHOOSE c \in {RISK_CATEGORIES[i] : i \in 1..Len(RISK_CATEGORIES)} :
        c.name_en = name

(***************************************************************************)
(* kyc/risk_assessor.py                                                    *)
(***************************************************************************)

\* _validate_and_create_response: the exception it raises, or NoError
NoError == [exc |-> "none", msg |-> "", field |-> ""]

ValueError(msg, field) == [exc |-> "ValueError", msg |-> msg, field |-> field]

_validate_and_create_response(d) ==
    LET missing == {i \in 1..Len(required_fields) :
                        required_fields[i] \notin DOMAIN d}
    IN  IF missing # {}
        THEN ValueError("Missing required field",
                 required_fields[CHOOSE i \in missing : \A j \in missing : i <= j])
        ELSE IF DOMAIN d # FieldSet
        THEN \* KYCResponse(**responses_dict): TypeError, unexpected keyword
             ValueError("Invalid KYC responses: unexpected keyword argument",
                        CHOOSE k \in DOMAIN d \ FieldSet : TRUE)
        ELSE IF PostInitBad(d) # 0
        THEN ValueError("Invalid KYC responses: must be an integer between 0 and 100",
                        required_fields[PostInitBad(d)])
        ELSE NoError

\* _validate_consistency: the triggered rules, in declaration order
_validate_consistencyWithoutSleepRule(resp) ==
    SelectSeq(CONSISTENCY_RULES,
              LAMBDA rule : rule.type # "SLEEP_LOSS_MISMATCH"
                            /\ RuleCondition(rule.type, resp))

_validate_consistency(resp) ==
    SelectSeq(CONSISTENCY_RULES, LAMBDA rule : RuleCondition(rule.type, resp))

\* _calculate_composite_score, in hundredths
WeightedSum(h, l, e, f, g) ==
      h * SCORING_WEIGHTS.horizon
    + l * SCORING_WEIGHTS.loss_tolerance
    + e * SCORING_WEIGHTS.experience
    + f * SCORING_WEIGHTS.financial
    + g * SCORING_WEIGHTS.goal

_calculate_composite_scoreUsingSleep(resp) ==
    WeightedSum(resp.horizon_score, resp.sleep_score,
                resp.experience_score, resp.financial_score, resp.goal_score)

_calculate_composite_score(resp) ==
    WeightedSum(resp.horizon_score, resp.loss_tolerance,
                resp.experience_score, resp.financial_score, resp.goal_score)

\* one pass of the loop body of _apply_consistency_adjustments
AdjustOne(adjusted_score, resp, inconsistency) ==
    LET action == inconsistency.suggested_action
    IN  CASE action = "reduce_risk_score" -> (adjusted_score * 8) \div 10
          [] action = "cap_at_moderate" -> Min(adjusted_score, 6500)
          [] action = "reduce_to_conservative" -> Min(adjusted_score, 4500)
          [] action = "use_conservative_score" ->
                WeightedSum(resp.horizon_score,
                            Min(resp.sleep_score, resp.loss_tolerance),
                            resp.experience_score, resp.financial_score,
                            resp.goal_score)
          [] OTHER -> adjusted_score

RECURSIVE AdjustLoop(_, _, _)
AdjustLoop(adjusted_score, resp, inconsistencies) ==
    IF inconsistencies = <<>>
    THEN adjusted_score
    ELSE AdjustLoop(AdjustOne(adjusted_score, resp, Head(inconsistencies)),
                    resp, Tail(inconsistencies))

_apply_consistency_adjustmentsWithoutReduction(composite_score, resp, inconsistencies) ==
    Max(0, Min(10000,
        AdjustLoop(composite_score, resp,
                   SelectSeq(inconsistencies,
                             LAMBDA i : i.suggested_action # "reduce_risk_score"))))

_apply_consistency_adjustments(composite_score, resp, inconsistencies) ==
    Max(0, Min(10000, AdjustLoop(composite_score, resp, inconsistencies)))

\* _score_to_risk_level with the second band spread over three levels
_score_to_risk_levelSteeper(score) ==
    IF score <= 2500
    THEN Max(1, Min(3, (2500 + 2 * score) \div 2500))
    ELSE IF score <= 4500
    THEN Max(3, Min(6, (3 * 2000 + 3 * (score - 2500)) \div 2000))
    ELSE IF score <= 6500
    THEN Max(5, Min(7, (5 * 2000 + 2 * (score - 4500)) \div 2000))
    ELSE IF score <= 8500
    THEN Max(7, Min(9, (7 * 2000 + 2 * (score - 6500)) \div 2000))
    ELSE Max(9, Min(10, (9 * 1500 + (score - 8500)) \div 1500))

\* _score_to_risk_level: int() of a non-negative float is its floor
_score_to_risk_level(score) ==
    IF score <= 2500
    THEN Max(1, Min(3, (2500 + 2 * score) \div 2500))
    ELSE IF score <= 4500
    THEN Max(3, Min(5, (3 * 2000 + 2 * (score - 2500)) \div 2000))
    ELSE IF score <= 6500
    THEN Max(5, Min(7, (5 * 2000 + 2 * (score - 4500)) \div 2000))
    ELSE IF score <= 8500
    THEN Max(7, Min(9, (7 * 2000 + 2 * (score - 6500)) \div 2000))
    ELSE Max(9, Min(10, (9 * 1500 + (score - 8500)) \div 1500))

\* _map_to_risk_category: the first category whose score_range holds the
\* score, else the default ('Moderate', 5)
_map_to_risk_category(composite_score) ==
    LET hits == {i \in 1..Len(RISK_CATEGORIES) :
                    /\ RISK_CATEGORIES[i].score_range[1] * 100 <= composite_score
                    /\ composite_score <= RISK_CATEGORIES[i].score_range[2] * 100}
    IN  IF hits # {}
        THEN [category |-> RISK_CATEGORIES[CHOOSE i \in hits :
                                               \A j \in hits : i <= j].name_en,
              risk_level |-> _score_to_risk_level(composite_score),
              matched |-> TRUE]
        ELSE [category |-> "Moderate", risk_level |-> 5, matched |-> FALSE]

\* _create_risk_profile with every inconsistency lowering the confidence
_create_risk_profileCountingErrors(risk_level, category, composite_score, inconsistencies, matched) ==
    [risk_level |-> risk_level,
     category_english |-> category,
     composite_score |-> composite_score,
     equity_range |-> CategoryByName(category).equity_range,
     inconsistencies |-> inconsistencies,
     confidence_score |-> Max(5, 10 - Len(inconsistencies)),
     category_matched |-> matched]

\* _create_risk_profile; confidence_score in tenths
_create_risk_profile(risk_level, category, composite_score, inconsistencies, matched) ==
    LET warnings == SelectSeq(inconsistencies, LAMBDA i : i.severity = "warning")
    IN  [risk_level |-> risk_level,
         category_english |-> category,
         composite_score |-> composite_score,
         equity_range |-> CategoryByName(category).equity_range,
         inconsistencies |-> inconsistencies,
         confidence_score |-> Max(5, 10 - Len(warnings)),
         category_matched |-> matched]

NoProfile ==
    [risk_level |-> 0, category_english |-> "", composite_score |-> 0,
     equity_range |-> <<0, 0>>, inconsistencies |-> <<>>,
     confidence_score |-> 0, category_matched |-> FALSE]

\* process_responses on a dictionary that passed validation
AssessProfile(d) ==
    LET kyc_response == KYCResponse(d)
        inconsistencies == _validate_consistency(kyc_response)
        composite_score == _calculate_composite_score(kyc_response)
        adjusted_score == _apply_consistency_adjustments(
                              composite_score, kyc_response, inconsistencies)
        mapped == _map_to_risk_category(adjusted_score)
    IN  _create_risk_profile(mapped.risk_level, mapped.category,
                             adjusted_score, inconsistencies, mapped.matched)

\* RiskProfile.is_consistent
is_consistentSeverityMisspelt(profile) ==
    \A i \in 1..Len(profile.inconsistencies) :
        profile.inconsistencies[i].severity # "errors"

is_consistent(profile) ==
    \A i \in 1..Len(profile.inconsistencies) :
        profile.inconsistencies[i].severity # "error"

(***************************************************************************)
(* Requests                                                                *)
(***************************************************************************)

\* Number of equal steps of the 0..100 score scale sampled in every field
GridPoints == 2

ScoreGrid == {(100 * k) \div GridPoints : k \in 0..GridPoints}

\* Sampled answers per field: the grid and both sides of every rule threshold
HorizonValues == ScoreGrid \cup {29, 30}
LossValues == ScoreGrid \cup {60, 61, 70, 71}
ExperienceValues == ScoreGrid \cup {29, 30}
FinancialValues == ScoreGrid \cup {39, 40}
GoalValues == ScoreGrid \cup {80, 81}
SleepValues(l) == (ScoreGrid \cup {l - 41, l - 40, l + 40, l + 41}) \cap (0..100)

MkDict(h, l, e, f, g, s) ==
    [k \in FieldSet |->
        IntVal(CASE k = "horizon_score" -> h
                 [] k = "loss_tolerance" -> l
                 [] k = "experience_score" -> e
                 [] k = "financial_score" -> f
                 [] k = "goal_score" -> g
                 [] k = "sleep_score" -> s)]

\* Dictionaries of every shape: each field missing, not an int, below 0,
\* above 100 or in range; with or without a key KYCResponse does not know
FieldChoice == {"missing", "nonint", "low", "high", "ok"}

ShapeValue(c) ==
    CASE c = "nonint" -> OtherVal(50)
      [] c = "low" -> IntVal(-1)
      [] c = "high" -> IntVal(101)
      [] OTHER -> IntVal(50)

ShapeDict(c, extra) ==
    [k \in {f \in FieldSet : c[f] # "missing"}
            \cup (IF extra THEN {"extra_field"} ELSE {}) |->
        IF k = "extra_field" THEN IntVal(50) ELSE ShapeValue(c[k])]

\* calculate_portfolio receives six Form(...) ints: always present, always
\* int, and no other key; their range is not checked by the framework
FormChoice == {"low", "high", "ok"}

\* What SortinoPortfolioOptimizer does once calculate_portfolio reaches it
OptimizerOutcomes ==
    {"construct_raises", "optimize_raises", "converged", "fallback"}

NoResponse ==
    [kind |-> "none", error_type |-> "", category |-> "",
     inconsistencies |-> <<>>, optimization_success |-> FALSE]

\* A request holding exactly the six fields, each an int in 0..100
InitValid ==
    \E h \in HorizonValues, l \in LossValues, e \in ExperienceValues,
       f \in FinancialValues, g \in GoalValues :
        \E s \in SleepValues(l) :
            /\ entry \in {"process_responses", "calculate_portfolio"}
            /\ responses_dict = MkDict(h, l, e, f, g, s)

\* A request of any shape handed to process_responses
InitShape ==
    \E c \in [FieldSet -> FieldChoice], extra \in BOOLEAN :
        /\ entry = "process_responses"
        /\ responses_dict = ShapeDict(c, extra)

\* A form whose ints may be out of range
InitForm ==
    \E c \in [FieldSet -> FormChoice] :
        /\ entry = "calculate_portfolio"
        /\ responses_dict = ShapeDict(c, FALSE)

InitKYC ==
    /\ (InitValid \/ InitShape \/ InitForm)
    /\ pc = "call"
    /\ risk_profile = NoProfile
    /\ error = NoError
    /\ http_response = NoResponse
    /\ optimizer_constructed = FALSE
    /\ optimizer_runs = 0
    /\ UniIdle
    /\ SortinoIdle
    /\ AdvancedIdle
    /\ FloatIdle
    /\ ExtIdle

\* KYCRiskAssessor.process_responses
process_responses ==
    /\ pc = "call"
    /\ entry = "process_responses"
    /\ LET err == _validate_and_create_response(responses_dict)
       IN  IF err # NoError
           THEN /\ pc' = "raised"
                /\ error' = err
                /\ risk_profile' = risk_profile
           ELSE /\ pc' = "returned"
                /\ error' = error
                /\ risk_profile' = AssessProfile(responses_dict)
    /\ UNCHANGED <<entry, responses_dict, http_response,
                   optimizer_constructed, optimizer_runs>>
    /\ UNCHANGED <<uni_vars, sor_vars, adv_vars, flt_vars, ext_vars>>

\* the blocked result of calculate_portfolio
BlockedResponse(profile, error_inconsistencies) ==
    [kind |-> "blocked", error_type |-> "blocking_inconsistencies",
     category |-> profile.category_english,
     inconsistencies |-> error_inconsistencies,
     optimization_success |-> FALSE]

\* the guard of the blocked result
IsBlocked(profile) ==
    /\ ~is_consistent(profile)
    /\ SelectSeq(profile.inconsistencies, LAMBDA i : i.severity = "error") # <<>>

\* main.calculate_portfolio
calculate_portfolio ==
    /\ pc = "call"
    /\ entry = "calculate_portfolio"
    /\ LET err == _validate_and_create_response(responses_dict)
           kyc_result == AssessProfile(responses_dict)
       IN  IF err # NoError
           THEN \* process_responses raised; the handler re-raises
                /\ pc' = "raised"
                /\ error' = err
                /\ risk_profile' = risk_profile
                /\ http_response' = [NoResponse EXCEPT !.kind = "raised"]
                /\ UNCHANGED <<optimizer_constructed, optimizer_runs>>
           ELSE IF IsBlocked(kyc_result)
           THEN /\ pc' = "returned"
                /\ error' = error
                /\ risk_profile' = kyc_result
                /\ http_response' =
                       BlockedResponse(kyc_result,
                           SelectSeq(kyc_result.inconsistencies,
                                     LAMBDA i : i.severity = "error"))
                /\ UNCHANGED <<optimizer_constructed, optimizer_runs>>
           ELSE \E outcome \in OptimizerOutcomes :
                /\ risk_profile' = kyc_result
                /\ optimizer_constructed' = TRUE
                /\ optimizer_runs' =
                       IF outcome = "construct_raises" THEN 0 ELSE 1
                /\ IF outcome \in {"construct_raises", "optimize_raises"}
                   THEN /\ pc' = "raised"
                        /\ error' = [exc |-> "Exception", msg |-> outcome,
                                      field |-> ""]
                        /\ http_response' = [NoResponse EXCEPT !.kind = "raised"]
                   ELSE /\ pc' = "returned"
                        /\ error' = error
                        /\ http_response' =
                               [kind |-> "portfolio", error_type |-> "",
                                category |-> kyc_result.category_english,
                                inconsistencies |-> kyc_result.inconsistencies,
                                optimization_success |-> (outcome = "converged")]
    /\ UNCHANGED <<entry, responses_dict>>
    /\ UNCHANGED <<uni_vars, sor_vars, adv_vars, flt_vars, ext_vars>>

NextKYC == process_responses \/ calculate_portfolio

SpecKYC == InitKYC /\ [][NextKYC]_vars

(***************************************************************************)
(* Properties of the KYC assessment and of calculate_portfolio             *)
(***************************************************************************)

\* The request holds exactly the six fields, each an int in 0..100
ValidRequest ==
    /\ DOMAIN responses_dict = FieldSet
    /\ \A k \in FieldSet :
          /\ responses_dict[k].int
          /\ responses_dict[k].v \in 0..100

Answer(k) == responses_dict[k].v

\* The request was valid and its profile has been produced
Assessed == pc # "call" /\ ValidRequest

Flagged(type) ==
    \E i \in 1..Len(risk_profile.inconsistencies) :
        risk_profile.inconsistencies[i].type = type

HasErrorInconsistency ==
    \E i \in 1..Len(risk_profile.inconsistencies) :
        risk_profile.inconsistencies[i].severity = "error"

\* The weighted sum of the five scored answers, in hundredths
UnadjustedSum ==
      25 * Answer("horizon_score") + 30 * Answer("loss_tolerance")
    + 20 * Answer("experience_score") + 15 * Answer("financial_score")
    + 10 * Answer("goal_score")

\* C1: in calculate_portfolio, for every valid response, the optimizer is
\* constructed and run only when the profile has no error-severity
\* inconsistency, and always then; with an error-severity inconsistency the
\* handler returns the blocked result (error_type blocking_inconsistencies)
\* listing exactly the error inconsistencies, and the optimizer is neither
\* constructed nor run; a warning-only profile is never blocked.
C1_BlockedIffErrorInconsistency ==
    (entry = "calculate_portfolio" /\ Assessed) =>
        /\ optimizer_constructed <=> ~HasErrorInconsistency
        /\ HasErrorInconsistency =>
              /\ pc = "returned"
              /\ http_response.kind = "blocked"
              /\ http_response.error_type = "blocking_inconsistencies"
              /\ http_response.inconsistencies =
                     SelectSeq(risk_profile.inconsistencies,
                               LAMBDA i : i.severity = "error")
              /\ http_response.inconsistencies # <<>>
              /\ optimizer_runs = 0
        /\ ~HasErrorInconsistency =>
              /\ http_response.kind # "blocked"
              /\ optimizer_runs <= 1
              /\ http_response.kind = "portfolio" => optimizer_runs = 1

\* a warning-only profile went through to the optimizer and a portfolio came back
C1_Witness ==
    /\ entry = "calculate_portfolio" /\ Assessed
    /\ risk_profile.inconsistencies # <<>>
    /\ ~HasErrorInconsistency
    /\ http_response.kind = "portfolio"
    /\ optimizer_runs = 1

MissingFields == {i \in 1..Len(required_fields) :
                     required_fields[i] \notin DOMAIN responses_dict}

OffendingFields ==
    {i \in 1..Len(required_fields) :
        /\ required_fields[i] \in DOMAIN responses_dict
        /\ ~(responses_dict[required_fields[i]].int
              /\ responses_dict[required_fields[i]].v \in 0..100)}

First(S) == CHOOSE i \in S : \A j \in S : i <= j

\* C4 as stated: process_responses raises ValueError and returns no profile
\* whenever a field is missing or not an int in 0..100, naming the first
\* missing field, else the first offending field; and it never fails when
\* all six fields are ints in 0..100.
C4_AsStated ==
    (entry = "process_responses" /\ pc # "call") =>
        /\ MissingFields # {} =>
              /\ pc = "raised" /\ risk_profile = NoProfile
              /\ error = ValueError("Missing required field",
                                    required_fields[First(MissingFields)])
        /\ (MissingFields = {} /\ OffendingFields # {}) =>
              /\ pc = "raised" /\ risk_profile = NoProfile
              /\ error.exc = "ValueError"
              /\ error.field = required_fields[First(OffendingFields)]
        /\ (MissingFields = {} /\ OffendingFields = {}) => pc = "returned"

\* C4, amended: the same, where the last two cases are those of a dictionary
\* with no key besides the six fields; a dictionary with all six fields and
\* another key always fails with a ValueError that names that key.
C4_Validation ==
    (entry = "process_responses" /\ pc # "call") =>
        /\ MissingFields # {} =>
              /\ pc = "raised" /\ risk_profile = NoProfile
              /\ error = ValueError("Missing required field",
                                    required_fields[First(MissingFields)])
        /\ (MissingFields = {} /\ DOMAIN responses_dict = FieldSet
                /\ OffendingFields # {}) =>
              /\ pc = "raised" /\ risk_profile = NoProfile
              /\ error.exc = "ValueError"
              /\ error.field = required_fields[First(OffendingFields)]
        /\ (MissingFields = {} /\ DOMAIN responses_dict = FieldSet
                /\ OffendingFields = {}) =>
              /\ pc = "returned" /\ error = NoError
        /\ (MissingFields = {} /\ DOMAIN responses_dict # FieldSet) =>
              /\ pc = "raised" /\ risk_profile = NoProfile
              /\ error.exc = "ValueError"
              /\ error.field \in DOMAIN responses_dict \ FieldSet

\* the second of two bad fields is not the one reported
C4_Witness ==
    /\ entry = "process_responses" /\ pc = "raised"
    /\ DOMAIN responses_dict = FieldSet
    /\ Cardinality(OffendingFields) >= 2
    /\ First(OffendingFields) = 2
    /\ error.field = "loss_tolerance"

RuleRank(type) ==
    CASE type = "SHORT_HORIZON_HIGH_RISK" -> 1
      [] type = "INEXPERIENCED_AGGRESSIVE" -> 2
      [] type = "LOW_CAPACITY_HIGH_APPETITE" -> 3
      [] type = "SLEEP_LOSS_MISMATCH" -> 4

SeverityOf(type) ==
    LET i == CHOOSE j \in 1..Len(risk_profile.inconsistencies) :
                 risk_profile.inconsistencies[j].type = type
    IN  risk_profile.inconsistencies[i].severity

\* C5: for every valid response the inconsistency list holds each rule's
\* type exactly when its condition on the raw answers holds, with the rule's
\* severity, at most once, in declaration order.
C5_InconsistencyList ==
    Assessed =>
        LET incs == risk_profile.inconsistencies IN
        /\ Flagged("SHORT_HORIZON_HIGH_RISK") <=>
              (Answer("horizon_score") < 30 /\ Answer("loss_tolerance") > 70)
        /\ Flagged("INEXPERIENCED_AGGRESSIVE") <=>
              (Answer("experience_score") < 30 /\ Answer("goal_score") > 80)
        /\ Flagged("LOW_CAPACITY_HIGH_APPETITE") <=>
              (Answer("financial_score") < 40 /\ Answer("loss_tolerance") > 60)
        /\ Flagged("SLEEP_LOSS_MISMATCH") <=>
              (Answer("sleep_score") - Answer("loss_tolerance") > 40
               \/ Answer("loss_tolerance") - Answer("sleep_score") > 40)
        /\ Flagged("SHORT_HORIZON_HIGH_RISK") =>
              SeverityOf("SHORT_HORIZON_HIGH_RISK") = "warning"
        /\ Flagged("INEXPERIENCED_AGGRESSIVE") =>
              SeverityOf("INEXPERIENCED_AGGRESSIVE") = "warning"
        /\ Flagged("LOW_CAPACITY_HIGH_APPETITE") =>
              SeverityOf("LOW_CAPACITY_HIGH_APPETITE") = "error"
        /\ Flagged("SLEEP_LOSS_MISMATCH") =>
              SeverityOf("SLEEP_LOSS_MISMATCH") = "warning"
        /\ \A i, j \in 1..Len(incs) :
              i < j => RuleRank(incs[i].type) < RuleRank(incs[j].type)

\* all four rules fire on one response
C5_Witness ==
    /\ Assessed
    /\ Len(risk_profile.inconsistencies) = 4
    /\ risk_profile.inconsistencies[4].type = "SLEEP_LOSS_MISMATCH"

NoRuleTriggers ==
    /\ ~(Answer("horizon_score") < 30 /\ Answer("loss_tolerance") > 70)
    /\ ~(Answer("experience_score") < 30 /\ Answer("goal_score") > 80)
    /\ ~(Answer("financial_score") < 40 /\ Answer("loss_tolerance") > 60)
    /\ Abs(Answer("sleep_score") - Answer("loss_tolerance")) <= 40

\* C6: for every valid response that triggers no rule, composite_score is
\* 0.25 horizon + 0.30 loss_tolerance + 0.20 experience + 0.15 financial
\* + 0.10 goal, an expression in which sleep_score does not occur.
C6_CompositeIsWeightedSum ==
    (Assessed /\ NoRuleTriggers) =>
        risk_profile.composite_score = UnadjustedSum

\* no rule fires although sleep_score differs from loss_tolerance
C6_Witness ==
    /\ Assessed /\ NoRuleTriggers
    /\ Answer("sleep_score") # Answer("loss_tolerance")
    /\ risk_profile.composite_score = UnadjustedSum
    /\ risk_profile.composite_score > 0

\* C7: for every valid response the final composite_score lies in [0,100],
\* never exceeds the unadjusted weighted sum, and is strictly below it
\* whenever SHORT_HORIZON_HIGH_RISK is flagged.
C7_ScoreBoundedByUnadjusted ==
    Assessed =>
        /\ 0 <= risk_profile.composite_score
        /\ risk_profile.composite_score <= 10000
        /\ risk_profile.composite_score <= UnadjustedSum
        /\ Flagged("SHORT_HORIZON_HIGH_RISK") =>
              risk_profile.composite_score < UnadjustedSum

\* SHORT_HORIZON_HIGH_RISK is the only rule flagged and the score is the
\* unadjusted sum less 20%
C7_Witness ==
    /\ Assessed
    /\ Len(risk_profile.inconsistencies) = 1
    /\ Flagged("SHORT_HORIZON_HIGH_RISK")
    /\ 10 * risk_profile.composite_score = 8 * UnadjustedSum

\* C8: whenever LOW_CAPACITY_HIGH_APPETITE is flagged for a valid response,
\* the composite_score of the returned profile is at most 45.
C8_LowCapacityCappedAt45 ==
    (Assessed /\ Flagged("LOW_CAPACITY_HIGH_APPETITE")) =>
        risk_profile.composite_score <= 4500

\* C9: whenever INEXPERIENCED_AGGRESSIVE is flagged for a valid response,
\* the composite_score of the returned profile is at most 65.
C9_InexperiencedCappedAt65 ==
    (Assessed /\ Flagged("INEXPERIENCED_AGGRESSIVE")) =>
        risk_profile.composite_score <= 6500

\* The band of a score under the 25/45/65/85 breakpoints
BandOf(score) ==
    IF score <= 2500 THEN "Ultra Conservative"
    ELSE IF score <= 4500 THEN "Conservative"
    ELSE IF score <= 6500 THEN "Moderate"
    ELSE IF score <= 8500 THEN "Aggressive"
    ELSE "Very Aggressive"

\* C10: for every final score process_responses can produce, the assigned
\* category is the band of the score under the 25/45/65/85 breakpoints and
\* the default for a score that matched no category is never taken.
C10_CategoryIsBandOfScore ==
    Assessed =>
        /\ risk_profile.category_english = BandOf(risk_profile.composite_score)
        /\ risk_profile.category_matched

\* The risk levels of a category
LevelRange(category) ==
    IF category = "Ultra Conservative" THEN 1..3
    ELSE IF category = "Conservative" THEN 3..5
    ELSE IF category = "Moderate" THEN 5..7
    ELSE IF category = "Aggressive" THEN 7..9
    ELSE 9..10

\* C12: for every valid response the risk_level of the returned profile is
\* an integer in 1..10 and lies inside the level range of the assigned
\* category: 1..3 Ultra Conservative, 3..5 Conservative, 5..7 Moderate,
\* 7..9 Aggressive, 9..10 Very Aggressive.
C12_RiskLevelInsideCategory ==
    (Assessed /\ pc = "returned") =>
        /\ risk_profile.risk_level \in 1..10
        /\ risk_profile.risk_level \in LevelRange(risk_profile.category_english)

\* a Conservative profile at the top of its band, capped there at 45
C12_Witness ==
    /\ Assessed /\ pc = "returned"
    /\ risk_profile.category_english = "Conservative"
    /\ risk_profile.composite_score = 4500
    /\ risk_profile.risk_level = 5

\* The warning rules whose condition the answers meet
WarningRulesMet ==
    {i \in 1..Len(CONSISTENCY_RULES) :
        /\ CONSISTENCY_RULES[i].severity = "warning"
        /\ RuleCondition(CONSISTENCY_RULES[i].type, KYCResponse(responses_dict))}

\* C13: for every valid response, confidence_score (in tenths) is
\* max(0.5, 1.0 - 0.1 * W) with W the number of warning-severity
\* inconsistencies flagged; error-severity inconsistencies do not change it.
C13_ConfidenceFromWarnings ==
    (Assessed /\ pc = "returned") =>
        risk_profile.confidence_score = Max(5, 10 - Cardinality(WarningRulesMet))

\* two warnings and an error: the confidence is 0.8
C13_Witness ==
    /\ Assessed /\ pc = "returned"
    /\ HasErrorInconsistency
    /\ Cardinality(WarningRulesMet) = 2
    /\ risk_profile.confidence_score = 8

(***************************************************************************)
(* portfolio/unified_optimizer.py                                          *)
(*                                                                         *)
(* Units.  Fractions (volatility, CVaR, weight limits) are in millionths;  *)
(* equity_range is in percent; the composite score is in hundredths of a   *)
(* point, so s = composite_score / 100 is composite_score in 1/10000.      *)
(* The solvers (CVXPy/ECOS, SciPy SLSQP) are outside the repository: each  *)
(* stage ends in one of the ways its API allows, with an iterate drawn     *)
(* from a small set of weight vectors.                                     *)
(***************************************************************************)

\* Largest number of assets in the universe
MaxAssets == 3

\* Solver iterates have weights that are multiples of 1 / WeightSteps
WeightSteps == 2

\* getattr(kyc_response, name, kyc_response.composite_score) / 100.0, in 1/10000
AnswerOrComposite(kyc, answer) ==
    IF kyc.has_answers THEN answer * 100 ELSE kyc.composite_score

\* the equity bands with the top band ending below the one before it
EquityBandLowerTop(composite_score) ==
    IF composite_score <= 2500 THEN <<5, 20>>
    ELSE IF composite_score <= 4500 THEN <<15, 40>>
    ELSE IF composite_score <= 6500 THEN <<30, 65>>
    ELSE IF composite_score <= 8500 THEN <<55, 80>>
    ELSE <<70, 75>>

\* the equity band chosen by map_kyc_to_optimization_params
EquityBand(composite_score) ==
    IF composite_score <= 2500 THEN <<5, 20>>
    ELSE IF composite_score <= 4500 THEN <<15, 40>>
    ELSE IF composite_score <= 6500 THEN <<30, 65>>
    ELSE IF composite_score <= 8500 THEN <<55, 80>>
    ELSE <<70, 95>>

\* map_kyc_to_optimization_params without the time-horizon adjustment
map_kyc_to_optimization_paramsAnyHorizon(kyc) ==
    LET s == kyc.composite_score
        loss_tolerance == AnswerOrComposite(kyc, kyc.loss_tolerance)
        horizon_score == AnswerOrComposite(kyc, kyc.horizon_score)
        horizon_factor == Max(2000, horizon_score)
        target_volatility == 40000 + 18 * s
    IN  [risk_aversion_lambda |-> 16 * (10000 - loss_tolerance) + loss_tolerance,
         cvar_penalty_alpha |->
             6 * (10000 - loss_tolerance) * (20000 + (10000 - horizon_factor)),
         vol_penalty_beta |-> 5 * (10000 - s) + s,
         concentration_penalty_gamma |-> 30 * (10000 - s) + 2 * s,
         skewness_reward_delta |-> Max(0, s - 4000) * 2,
         target_volatility |-> target_volatility,
         target_cvar |-> 30000 + 12 * s,
         max_volatility |-> target_volatility + 30000,
         max_cvar |-> 30000 + 37 * s,
         equity_range |-> EquityBand(s),
         max_single_asset |-> 150000 + 25 * s,
         risk_category |-> kyc.category_english,
         composite_score |-> kyc.composite_score]

map_kyc_to_optimization_params(kyc) ==
    LET s == kyc.composite_score
        loss_tolerance == AnswerOrComposite(kyc, kyc.loss_tolerance)
        horizon_score == AnswerOrComposite(kyc, kyc.horizon_score)
        horizon_factor == Max(2000, horizon_score)
        target_volatility == 40000 + 18 * s
        band == EquityBand(s)
        short == horizon_score < 3000
    IN  [\* 8.0 * (1 - lt) + 0.5 * lt, in 1/20000
         risk_aversion_lambda |-> 16 * (10000 - loss_tolerance) + loss_tolerance,
         \* 6.0 * (1 - lt) * (1 + 0.5 * (1 - hf)), in 1/(2 * 10^8)
         cvar_penalty_alpha |->
             6 * (10000 - loss_tolerance) * (20000 + (10000 - horizon_factor)),
         \* 5.0 * (1 - s) + 1.0 * s, in 1/10000
         vol_penalty_beta |-> 5 * (10000 - s) + s,
         \* 3.0 * (1 - s) + 0.2 * s, in 1/100000
         concentration_penalty_gamma |-> 30 * (10000 - s) + 2 * s,
         \* max(0, s - 0.4) * 2.0, in 1/10000
         skewness_reward_delta |-> Max(0, s - 4000) * 2,
         target_volatility |-> target_volatility,
         target_cvar |-> 30000 + 12 * s,
         max_volatility |-> target_volatility + 30000,
         max_cvar |-> IF short THEN Min(30000 + 37 * s, 80000) ELSE 30000 + 37 * s,
         equity_range |-> IF short THEN <<band[1], Min(band[2], 50)>> ELSE band,
         max_single_asset |-> 150000 + 25 * s,
         risk_category |-> kyc.category_english,
         composite_score |-> kyc.composite_score]

\* get_asset_indices_by_category
IndicesByCategory(universe, category) ==
    {i \in 1..Len(universe) : universe[i] = category}

\* a start with everything in the first asset
_create_equal_weight_startAllInFirst(universe) ==
    [num |-> [i \in 1..Len(universe) |-> IF i = 1 THEN 1 ELSE 0], den |-> 1]

\* _create_equal_weight_start
_create_equal_weight_start(universe) ==
    [num |-> [i \in 1..Len(universe) |-> 1], den |-> Len(universe)]

\* _create_simple_allocation; den = 0 stands for the NaN vector of 0 / 0
_create_simple_allocation(params, universe) ==
    LET equity_indices == IndicesByCategory(universe, "equity")
        bond_indices == IndicesByCategory(universe, "bond")
        other_indices == (1..Len(universe)) \ (equity_indices \cup bond_indices)
        ne == Max(1, Cardinality(equity_indices))
        nb == Max(1, Cardinality(bond_indices))
        no == Max(1, Cardinality(other_indices))
        \* targets in 1/200
        target_equity == params.equity_range[1] + params.equity_range[2]
        target_bonds == Min(80, 200 - target_equity)
        target_other == Max(0, 200 - target_equity - target_bonds)
        \* per-asset weights over the common denominator 200 * ne * nb * no
        raw == [i \in 1..Len(universe) |->
                   IF i \in equity_indices THEN target_equity * nb * no
                   ELSE IF i \in bond_indices THEN target_bonds * ne * no
                   ELSE target_other * ne * nb]
    IN  [num |-> raw, den |-> SumSeq(raw)]

\* w > threshold, for threshold = tnum / tden; a NaN compares false
WeightAbove(w, i, tnum, tden) == w.den > 0 /\ w.num[i] * tden > tnum * w.den

\* round(x) for x = num / den >= 0, ties to even
RoundHalfEven(num, den) ==
    LET q == num \div den
        r == num % den
    IN  IF 2 * r > den \/ (2 * r = den /\ q % 2 = 1) THEN q + 1 ELSE q

\* round(w, 4) in 1/10000
Round4(w, i) == RoundHalfEven(w.num[i] * 10000, w.den)

\* round(investment_amount * w, 2) in hundredths of an ILS
RoundAmount(investment_amount, w, i) ==
    RoundHalfEven(investment_amount * 100 * w.num[i], w.den)

\* (cov_matrix @ weights)[i], times weights.den
CovTimesWeights(cov_matrix, weights, i) ==
    SumSeq([j \in 1..Len(weights.num) |-> cov_matrix[i][j] * weights.num[j]])

\* weights.T @ cov_matrix @ weights = portfolio_vol ** 2, times weights.den ** 2
PortfolioVariance(cov_matrix, weights) ==
    SumSeq([i \in 1..Len(weights.num) |->
               weights.num[i] * CovTimesWeights(cov_matrix, weights, i)])

\* _build_optimization_result: the three dictionaries hold the assets
\* above 0.5%; risk contribution i is num[i] / den
_build_optimization_result(weights, params, investment_amount, optimization_success, cov_matrix) ==
    LET included == {i \in 1..Len(weights.num) : WeightAbove(weights, i, 5, 1000)}
    IN  [weights |-> weights,
         allocation_percentages |-> [i \in included |-> Round4(weights, i)],
         allocation_ils_amounts |->
             [i \in included |-> RoundAmount(investment_amount, weights, i)],
         risk_contributions |->
             [num |-> [i \in included |->
                          weights.num[i] * CovTimesWeights(cov_matrix, weights, i)],
              den |-> PortfolioVariance(cov_matrix, weights)],
         total_investment_ils |-> investment_amount,
         optimization_success |-> optimization_success,
         risk_category |-> params.risk_category]

\* A universe of ne equity, nb bond and no other assets, in that order
UniverseOf(ne, nb, no) ==
    [i \in 1..(ne + nb + no) |->
        IF i <= ne THEN "equity" ELSE IF i <= ne + nb THEN "bond" ELSE "other"]

Universes ==
    {UniverseOf(c[1], c[2], c[3]) :
        c \in {t \in (0..MaxAssets) \X (0..MaxAssets) \X (0..MaxAssets) :
                  t[1] + t[2] + t[3] \in 1..MaxAssets}}

\* Composite scores at the edges of the equity bands and between them
CompositeScores ==
    {0, 2500, 2505, 2995, 3000, 4500, 4505, 6500, 6505, 8500, 8505, 10000}

\* The category a composite score is mapped to by the assessor
CategoryOfScore(composite_score) ==
    _map_to_risk_category(composite_score).category

\* kyc_response: a RiskProfile (no answers), or an object carrying answers
KycResponses ==
    {[composite_score |-> c, has_answers |-> FALSE, loss_tolerance |-> 0,
      horizon_score |-> 0, experience_score |-> 0,
      category_english |-> CategoryOfScore(c)] : c \in CompositeScores}
    \cup
    {[composite_score |-> c, has_answers |-> TRUE, loss_tolerance |-> 50,
      horizon_score |-> h, experience_score |-> 50,
      category_english |-> CategoryOfScore(c)] :
        c \in CompositeScores, h \in {0, 29, 30, 100}}

\* Weight vectors of n assets on the grid of 1 / WeightSteps that sum to 1
GridVectors(n) ==
    {[num |-> v, den |-> WeightSteps] :
        v \in {f \in [1..n -> 0..WeightSteps] : SumSeq(f) = WeightSteps}}

\* Iterates that leave every asset but the first at 0.5%
DustVectors(n) ==
    IF n < 2 THEN {}
    ELSE {[num |-> [i \in 1..n |-> IF i = 1 THEN 200 - (n - 1) ELSE 1], den |-> 200]}

\* Covariance matrices: equal variances, uncorrelated or equally correlated
CovMatrices(n) ==
    {[i \in 1..n |-> [j \in 1..n |-> IF i = j THEN 2 ELSE c]] : c \in {0, 1}}

InvestmentAmounts == {10000, 100000}

\* Everything in the first asset, or everything in the last
CornerVectors(n) ==
    {[num |-> [i \in 1..n |-> IF i = k THEN WeightSteps ELSE 0],
      den |-> WeightSteps] : k \in {1, n}}

InitUnified ==
    /\ entry = "optimize_portfolio"
    /\ responses_dict = <<>>
    /\ pc = "idle"
    /\ risk_profile = NoProfile
    /\ error = NoError
    /\ http_response = NoResponse
    /\ optimizer_constructed = TRUE
    /\ optimizer_runs = 0
    /\ u_pc = "init"
    /\ \E kyc \in KycResponses : u_kyc = kyc
    /\ \E universe \in Universes :
          /\ u_universe = universe
          /\ \E cov_matrix \in CovMatrices(Len(universe)) : u_cov_matrix = cov_matrix
    /\ \E investment_amount \in InvestmentAmounts :
          u_investment_amount = investment_amount
    /\ \E available \in BOOLEAN : u_cvxpy_available = available
    /\ u_params = NoParams
    /\ u_cvxpy = "none"
    /\ u_initial_weights = NoWeights
    /\ u_scipy = NoScipy
    /\ u_solved = NoSolved
    /\ u_result = NoResult
    /\ SortinoIdle
    /\ AdvancedIdle
    /\ FloatIdle
    /\ ExtIdle

\* optimize_portfolio, up to the call of _solve_optimization; then the
\* head of _solve_optimization: without CVXPy the start is equal weights
optimize_portfolio_begin ==
    /\ u_pc = "init"
    /\ u_params' = map_kyc_to_optimization_params(u_kyc)
    /\ IF u_cvxpy_available
         THEN /\ u_pc' = "warmstart"
              /\ UNCHANGED <<u_cvxpy, u_initial_weights>>
         ELSE /\ u_pc' = "refine"
              /\ u_cvxpy' = "unavailable"
              /\ u_initial_weights' = _create_equal_weight_start(u_universe)
    /\ UNCHANGED <<u_kyc, u_universe, u_cov_matrix, u_investment_amount,
                   u_cvxpy_available, u_scipy, u_solved, u_result>>
    /\ UNCHANGED <<kyc_vars, sor_vars, adv_vars, flt_vars, ext_vars>>

\* Stage 1: _solve_cvxpy_stage raises (solver error, status not optimal)
\* and the start is equal weights, or it returns w.value
_solve_cvxpy_stage ==
    /\ u_pc = "warmstart"
    /\ \E outcome \in {"raises", "optimal"} :
          IF outcome = "raises"
            THEN /\ u_cvxpy' = "raised"
                 /\ u_initial_weights' = _create_equal_weight_start(u_universe)
            ELSE /\ u_cvxpy' = "optimal"
                 /\ \E w \in CornerVectors(Len(u_universe)) : u_initial_weights' = w
    /\ u_pc' = "refine"
    /\ UNCHANGED <<u_kyc, u_universe, u_cov_matrix, u_investment_amount,
                   u_cvxpy_available, u_params, u_scipy,
                   u_solved, u_result>>
    /\ UNCHANGED <<kyc_vars, sor_vars, adv_vars, flt_vars, ext_vars>>

\* Stage 2: _solve_scipy_stage returns result.x whether or not SLSQP
\* converged; if it raises, _solve_optimization returns initial_weights
_solve_scipy_stage ==
    /\ u_pc = "refine"
    /\ \/ /\ u_scipy' = [outcome |-> "raised", success |-> FALSE, x |-> NoWeights]
          /\ u_solved' = [raised |-> FALSE, weights |-> u_initial_weights]
       \/ \E success \in BOOLEAN,
             x \in GridVectors(Len(u_universe)) \cup DustVectors(Len(u_universe)) :
             /\ u_scipy' = [outcome |-> "returned", success |-> success, x |-> x]
             /\ u_solved' = [raised |-> FALSE, weights |-> x]
    /\ u_pc' = "solved"
    /\ UNCHANGED <<u_kyc, u_universe, u_cov_matrix, u_investment_amount,
                   u_cvxpy_available, u_params, u_cvxpy,
                   u_initial_weights, u_result>>
    /\ UNCHANGED <<kyc_vars, sor_vars, adv_vars, flt_vars, ext_vars>>

\* optimize_portfolio after _solve_optimization: the except branch builds
\* the simple allocation, the try branch reports success
optimize_portfolio_end ==
    /\ u_pc = "solved"
    /\ u_result' =
          IF u_solved.raised
            THEN _build_optimization_result(
                     _create_simple_allocation(u_params, u_universe), u_params,
                     u_investment_amount, FALSE, u_cov_matrix)
            ELSE _build_optimization_result(u_solved.weights, u_params,
                                            u_investment_amount, TRUE, u_cov_matrix)
    /\ u_pc' = "done"
    /\ UNCHANGED <<u_kyc, u_universe, u_cov_matrix, u_investment_amount,
                   u_cvxpy_available, u_params, u_cvxpy,
                   u_initial_weights, u_scipy, u_solved>>
    /\ UNCHANGED <<kyc_vars, sor_vars, adv_vars, flt_vars, ext_vars>>

NextUnified ==
    \/ optimize_portfolio_begin
    \/ _solve_cvxpy_stage
    \/ _solve_scipy_stage
    \/ optimize_portfolio_end

SpecUnified == InitUnified /\ [][NextUnified]_vars

\* The SciPy stage ended without converging
SolverDidNotConverge ==
    /\ u_pc = "done"
    /\ u_scipy.outcome = "returned"
    /\ ~u_scipy.success

\* C2: when the solver does not converge, the result of optimize_portfolio
\* has optimization_success False and carries the fallback allocation of
\* _create_simple_allocation
C2_NonConvergenceReportsFailure ==
    SolverDidNotConverge =>
        /\ u_result.optimization_success = FALSE
        /\ u_result.weights = _create_simple_allocation(u_params, u_universe)

\* The SciPy stage raised an exception
ScipyStageRaised ==
    /\ u_pc = "done"
    /\ u_scipy.outcome = "raised"

\* C14: when _solve_scipy_stage raises, optimize_portfolio still returns
\* a result, its optimization_success is False and its
\* allocation_percentages is not empty
C14_ScipyFailureReported ==
    /\ (u_pc = "solved" /\ u_scipy.outcome = "raised") => ~u_solved.raised
    /\ ScipyStageRaised =>
          /\ u_result.optimization_success = FALSE
          /\ DOMAIN u_result.allocation_percentages # {}

\* The sum of the values of a dictionary
RECURSIVE SumOver(_, _)
SumOver(f, keys) ==
    IF keys = {} THEN 0
    ELSE LET k == CHOOSE x \in keys : TRUE
         IN  f[k] + SumOver(f, keys \ {k})

\* The solve step handed over a non-negative weight vector summing to 1
ValidWeightsBuilt ==
    /\ u_pc = "done"
    /\ u_result.weights.den > 0
    /\ \A i \in 1..Len(u_universe) : u_result.weights.num[i] >= 0
    /\ SumSeq(u_result.weights.num) = u_result.weights.den

C18_AmountsMatchPercentages ==
    (ValidWeightsBuilt /\ u_investment_amount = 100000) =>
        /\ DOMAIN u_result.allocation_percentages
              = DOMAIN u_result.allocation_ils_amounts
        /\ \A i \in DOMAIN u_result.allocation_percentages :
              Abs(100 * u_result.allocation_ils_amounts[i]
                  - u_investment_amount * u_result.allocation_percentages[i])
                < 10000

\* C19: for every non-negative weight vector summing to 1 and covariance
\* matrix with positive portfolio variance, the reported risk_contributions
\* sum to 1 within 1e-4
C19_RiskContributionsSumToOne ==
    (ValidWeightsBuilt /\ u_result.risk_contributions.den > 0) =>
        10000 * Abs(SumOver(u_result.risk_contributions.num,
                            DOMAIN u_result.risk_contributions.num)
                    - u_result.risk_contributions.den)
            <= u_result.risk_contributions.den

\* map_kyc_to_optimization_params has just built the parameters
ParamsMapped == u_pc \in {"warmstart", "refine"}

\* The profiles with the horizon of kyc and a composite score not below its
NotLessAggressive(kyc) ==
    {other \in KycResponses :
        /\ other.has_answers = kyc.has_answers
        /\ other.has_answers => other.horizon_score = kyc.horizon_score
        /\ other.composite_score >= kyc.composite_score}

\* C20: map_kyc_to_optimization_params is monotone in the composite score:
\* for two profiles with the same horizon_score and composite scores
\* a <= b, neither the upper end of equity_range nor max_single_asset is
\* greater for a than for b, and max_single_asset is in [0.15, 0.40]
C20_ParamsMonotone ==
    ParamsMapped =>
        /\ u_params.max_single_asset >= 150000
        /\ u_params.max_single_asset <= 400000
        /\ \A other \in NotLessAggressive(u_kyc) :
              LET params == map_kyc_to_optimization_params(other)
              IN  /\ u_params.equity_range[2] <= params.equity_range[2]
                  /\ u_params.max_single_asset <= params.max_single_asset

\* an aggressive profile below a Very Aggressive one of the same long horizon
C20_Witness ==
    /\ ParamsMapped
    /\ u_kyc.has_answers /\ u_kyc.horizon_score = 100
    /\ u_kyc.composite_score = 8500
    /\ u_params.equity_range = <<55, 80>>
    /\ \E other \in NotLessAggressive(u_kyc) :
          /\ other.composite_score = 8505
          /\ map_kyc_to_optimization_params(other).equity_range = <<70, 95>>

\* The band of a composite score (in 1/100) at the breakpoints 25/45/65/85
BandAtBreakpoints(composite_score) ==
    LET breakpoints == <<2500, 4500, 6500, 8500>>
        ranges == <<<<5, 20>>, <<15, 40>>, <<30, 65>>, <<55, 80>>, <<70, 95>>>>
    IN  ranges[1 + Cardinality({i \in 1..4 : composite_score > breakpoints[i]})]

\* C21: for a profile with horizon_score < 30 the parameters have an
\* equity_range upper bound <= 0.50 and max_cvar <= 0.08; for a profile with
\* horizon_score >= 30 equity_range is the band range of the composite score
\* and max_cvar = 0.03 + 0.37 * score / 100
C21_ShortHorizonOverride ==
    (ParamsMapped /\ u_kyc.has_answers) =>
        IF u_kyc.horizon_score < 30
        THEN /\ u_params.equity_range[2] <= 50
             /\ u_params.max_cvar <= 80000
        ELSE /\ u_params.equity_range = BandAtBreakpoints(u_kyc.composite_score)
             /\ u_params.max_cvar * 100 = 3000000 + 37 * u_kyc.composite_score * 100

\* a Very Aggressive profile with horizon_score 29: both clamps are binding
C21_Witness ==
    /\ ParamsMapped
    /\ u_kyc.has_answers /\ u_kyc.horizon_score = 29
    /\ u_kyc.composite_score = 10000
    /\ u_params.equity_range[2] = 50
    /\ u_params.max_cvar = 80000

\* C28: the hard constraints of the parameters are satisfiable on their
\* own: the lower bound of equity_range is not above its upper bound, also
\* after the short-horizon clamp, and target_cvar is not above max_cvar
C28_HardConstraintsSatisfiable ==
    ParamsMapped =>
        /\ u_params.equity_range[1] <= u_params.equity_range[2]
        /\ u_params.target_cvar <= u_params.max_cvar

\* The CVXPy warm start raised, reported a status that is not optimal, or
\* is not installed
WarmStartFailed == u_cvxpy \in {"raised", "unavailable"}

\* C26: _solve_optimization goes INIT -> CONVEX_WARMSTART (optional) ->
\* NONCONVEX_REFINE: the refinement stage is entered on every solve; when
\* the warm start raises, reports a non-optimal status or is unavailable,
\* the refinement starts from the equal-weight vector 1/n; a warm-start
\* failure never aborts the solve or reaches the caller
C26_WarmStartFallsThrough ==
    /\ (u_pc \in {"solved", "done"}) =>
          /\ u_scipy.outcome # "none"
          /\ u_cvxpy # "none"
          /\ ~u_solved.raised
    /\ (u_pc = "warmstart") => (u_cvxpy_available /\ u_scipy.outcome = "none")
    /\ (WarmStartFailed /\ u_pc \in {"refine", "solved", "done"}) =>
          /\ u_initial_weights.den = Len(u_universe)
          /\ \A i \in 1..Len(u_universe) : u_initial_weights.num[i] = 1
          /\ (u_cvxpy = "unavailable") = ~u_cvxpy_available
    /\ (u_pc = "done" /\ WarmStartFailed) => u_result.optimization_success

\* the warm start raised on three assets, the refinement ran from 1/3 each
\* and returned, and the result was built
C26_Witness ==
    /\ u_pc = "done"
    /\ u_cvxpy = "raised"
    /\ Len(u_universe) = 3
    /\ u_initial_weights = [num |-> <<1, 1, 1>>, den |-> 3]
    /\ u_scipy.outcome = "returned"
    /\ u_result.optimization_success

(***************************************************************************)
(* portfolio/sortino_optimizer.py                                          *)
(*                                                                         *)
(* Units.  aggressiveness is in 1/10000 (the adapter passes                *)
(* composite_score / 100); weight limits are in millionths.  The ranking   *)
(* of the columns by mean return depends on the market data and is an      *)
(* input; scipy.optimize.minimize is outside the repository: it raises,    *)
(* or returns a result with a success flag and an iterate x.               *)
(***************************************************************************)

\* Largest number of columns of returns_data
MaxColumns == 6

high_risk_equity == {"NASDAQ_Total_Return", "US_Small_Cap_Russell2000",
                     "India_NIFTY", "Israel_SME60", "Emerging_Markets_MSCI"}

medium_risk_equity == {"US_Large_Cap_SP500", "Germany_DAX", "France_CAC40",
                       "UK_FTSE100", "Europe_MSCI", "Japan_MSCI", "Israel_TA125"}

low_risk_equity == {"US_REIT_Select"}

safe_bonds == {"Israel_Gov_Indexed_0_2Y", "Israel_Gov_Indexed_5_10Y",
               "Israel_Gov_Shekel_0_2Y", "Israel_Gov_Shekel_5_10Y",
               "Israel_TelBond_60", "Israel_TelBond_Shekel",
               "US_Gov_Bonds_3_7Y", "US_Gov_Bonds_Short"}

commodities == {"Gold_Futures", "Oil_Brent_Futures"}

get_asset_class(asset_name) ==
    IF asset_name \in high_risk_equity THEN "high_risk_equity"
    ELSE IF asset_name \in medium_risk_equity THEN "medium_risk_equity"
    ELSE IF asset_name \in low_risk_equity THEN "low_risk_equity"
    ELSE IF asset_name \in safe_bonds THEN "safe_bonds"
    ELSE IF asset_name \in commodities THEN "commodities"
    ELSE "unknown"

\* calculate_weight_limit, in millionths
calculate_weight_limit(aggressiveness, asset_name) ==
    LET s == aggressiveness
        asset_class == get_asset_class(asset_name)
    IN  IF asset_name \in {"NASDAQ_Total_Return", "US_Large_Cap_SP500"}
          THEN 100000 + 90 * s
        ELSE IF asset_class = "high_risk_equity" THEN 50000 + 75 * s
        ELSE IF asset_class = "medium_risk_equity" THEN 100000 + 70 * s
        ELSE IF asset_class = "low_risk_equity" THEN 150000 + 55 * s
        ELSE IF asset_class = "safe_bonds" THEN 300000 + 20 * s
        ELSE IF asset_class = "commodities"
          THEN IF s >= 8000 THEN 200000 ELSE 100000 + 25 * s
        ELSE 50000 + 25 * s

\* the bounds list built in optimize: (0, max_weight) for each column
WeightBounds(aggressiveness, asset_names) ==
    [i \in 1..Len(asset_names) |->
        calculate_weight_limit(aggressiveness, asset_names[i])]

\* x0: equal weights, each clipped to its bound, renormalised
InitialGuess(bounds) ==
    LET n == Len(bounds)
        clipped == [i \in 1..n |-> Min(1000000, bounds[i] * n)]
    IN  [num |-> clipped, den |-> SumSeq(clipped)]

\* a / b <= c / d for a, c >= 0 and b, d > 0, without forming a * d
RECURSIVE FracLeq(_, _, _, _)
FracLeq(a, b, c, d) ==
    IF a \div b # c \div d THEN a \div b < c \div d
    ELSE IF a % b = 0 THEN TRUE
    ELSE IF c % d = 0 THEN FALSE
    ELSE FracLeq(d, c % d, b, a % b)

\* every weight of x is inside its (0, max_weight) bound
WithinBounds(x, bounds) ==
    \A i \in 1..Len(bounds) : FracLeq(x.num[i], x.den, bounds[i], 1000000)

\* the first count entries of sorted_indices
TopIndices(sorted_indices, count) ==
    {sorted_indices[k] : k \in 1..Min(count, Len(sorted_indices))}

\* _create_fallback_weights before the normalisation, in millionths
FallbackRaw(aggressiveness, bounds, sorted_indices) ==
    LET count == IF aggressiveness > 7000 THEN 5
                 ELSE IF aggressiveness > 3000 THEN 10 ELSE 15
        cap == IF aggressiveness > 7000 THEN 300000
               ELSE IF aggressiveness > 3000 THEN 150000 ELSE 100000
        top == TopIndices(sorted_indices, count)
    IN  [i \in 1..Len(bounds) |-> IF i \in top THEN Min(cap, bounds[i]) ELSE 0]

\* _create_fallback_weights with the normalisation left out
_create_fallback_weightsNotNormalised(aggressiveness, bounds, sorted_indices) ==
    [num |-> FallbackRaw(aggressiveness, bounds, sorted_indices), den |-> 1000000]

_create_fallback_weights(aggressiveness, bounds, sorted_indices) ==
    LET raw == FallbackRaw(aggressiveness, bounds, sorted_indices)
    IN  IF SumSeq(raw) > 0
          THEN [num |-> raw, den |-> SumSeq(raw)]
          ELSE [num |-> [i \in 1..Len(bounds) |-> 1], den |-> Len(bounds)]

\* weight_dict: the columns whose weight is above 0.001
WeightDict(asset_names, weights) ==
    LET kept == {i \in 1..Len(asset_names) : WeightAbove(weights, i, 1, 1000)}
    IN  [names |-> {asset_names[i] : i \in kept},
         num |-> [i \in 1..Len(asset_names) |->
                     IF i \in kept THEN weights.num[i] ELSE 0],
         den |-> weights.den]

\* One column of every class, the two top performers among them, and a
\* column that AssetClassification does not list
AssetCatalogue ==
    <<"NASDAQ_Total_Return", "US_Large_Cap_SP500", "India_NIFTY", "Germany_DAX",
      "US_REIT_Select", "Israel_TelBond_60", "Gold_Futures", "USD_ILS">>

\* n consecutive columns of the catalogue, starting at any of them
ColumnLists ==
    {[i \in 1..n |-> AssetCatalogue[((start + i - 2) % Len(AssetCatalogue)) + 1]] :
        start \in 1..Len(AssetCatalogue),
        n \in 1..Min(MaxColumns, Len(AssetCatalogue))}

\* Rankings of n columns: the column order rotated, and each of these reversed
Rankings(n) ==
    {[k \in 1..n |-> ((shift + k - 1) % n) + 1] : shift \in 0..(n - 1)}
    \cup {[k \in 1..n |-> ((shift + n - k) % n) + 1] : shift \in 0..(n - 1)}

\* aggressiveness at and next to every threshold of the optimizer
AggressivenessValues ==
    {0, 3000, 3001, 5000, 7000, 7001, 7999, 8000, 9500, 10000}

\* Iterates of the solver: equal weights, or everything in one column
SolverIterates(n) ==
    {[num |-> [i \in 1..n |-> 1], den |-> n]}
    \cup {[num |-> [i \in 1..n |-> IF i = k THEN 1 ELSE 0], den |-> 1] : k \in 1..n}

InitSortino ==
    /\ entry = "optimize"
    /\ responses_dict = <<>>
    /\ pc = "idle"
    /\ risk_profile = NoProfile
    /\ error = NoError
    /\ http_response = NoResponse
    /\ optimizer_constructed = TRUE
    /\ optimizer_runs = 0
    /\ UniIdle
    /\ AdvancedIdle
    /\ FloatIdle
    /\ ExtIdle
    /\ s_pc = "init"
    /\ \E aggressiveness \in AggressivenessValues : s_aggressiveness = aggressiveness
    /\ \E asset_names \in ColumnLists :
          /\ s_asset_names = asset_names
          /\ \E ranking \in Rankings(Len(asset_names)) : s_sorted_indices = ranking
    /\ s_bounds = <<>>
    /\ s_x0 = NoWeights
    /\ s_solver = NoSolver
    /\ s_weights = NoWeights
    /\ s_result = NoSortinoResult

\* optimize up to the return of minimize: bounds, x0, the SLSQP run; a
\* run that reports success ends inside the bounds it was given
optimize_minimize ==
    /\ s_pc = "init"
    /\ s_bounds' = WeightBounds(s_aggressiveness, s_asset_names)
    /\ s_x0' = InitialGuess(WeightBounds(s_aggressiveness, s_asset_names))
    /\ \/ /\ s_solver' = [outcome |-> "raised", success |-> FALSE, x |-> NoWeights]
          /\ s_pc' = "raised"
       \/ \E success \in BOOLEAN, x \in SolverIterates(Len(s_asset_names)) :
             /\ success => WithinBounds(x, WeightBounds(s_aggressiveness, s_asset_names))
             /\ s_solver' = [outcome |-> "returned", success |-> success, x |-> x]
             /\ s_pc' = "minimized"
    /\ UNCHANGED <<s_aggressiveness, s_asset_names, s_sorted_indices, s_weights,
                   s_result>>
    /\ UNCHANGED <<kyc_vars, uni_vars, adv_vars, flt_vars, ext_vars>>

\* optimize after minimize: the weights, weight_dict and the returned dict
optimize_return ==
    /\ s_pc = "minimized"
    /\ LET weights ==
               IF ~s_solver.success
                 THEN _create_fallback_weights(s_aggressiveness, s_bounds,
                                               s_sorted_indices)
                 ELSE s_solver.x
       IN  /\ s_weights' = weights
           /\ s_result' = [weights |-> WeightDict(s_asset_names, weights),
                           aggressiveness |-> s_aggressiveness,
                           optimization_success |-> s_solver.success]
    /\ s_pc' = "done"
    /\ UNCHANGED <<s_aggressiveness, s_asset_names, s_sorted_indices, s_bounds,
                   s_x0, s_solver>>
    /\ UNCHANGED <<kyc_vars, uni_vars, adv_vars, flt_vars, ext_vars>>

NextSortino == optimize_minimize \/ optimize_return

SpecSortino == InitSortino /\ [][NextSortino]_vars

\* The assets that the fallback may fund: the best 5, 10 or 15 by return
FundedColumns ==
    LET count == IF s_aggressiveness > 7000 THEN 5
                 ELSE IF s_aggressiveness > 3000 THEN 10 ELSE 15
    IN  {s_sorted_indices[k] : k \in 1..Min(count, Len(s_sorted_indices))}

\* C3: optimize reports the solver's success flag; the weights are the
\* solver's solution when it succeeded and the fallback weights exactly
\* when it did not; the fallback vector is non-negative, sums to 1 and
\* funds only the best-ranked columns; a solve that does not converge
\* still returns
C3_SortinoFallback ==
    /\ (s_solver.outcome = "returned") => s_pc \in {"minimized", "done"}
    /\ (s_pc = "done") =>
          /\ s_result.optimization_success = s_solver.success
          /\ s_result.weights = WeightDict(s_asset_names, s_weights)
          /\ s_solver.success => s_weights = s_solver.x
          /\ ~s_solver.success =>
                /\ s_weights = _create_fallback_weights(s_aggressiveness, s_bounds,
                                                        s_sorted_indices)
                /\ s_weights.den > 0
                /\ \A i \in 1..Len(s_asset_names) : s_weights.num[i] >= 0
                /\ SumSeq(s_weights.num) = s_weights.den
                /\ \A i \in 1..Len(s_asset_names) :
                      s_weights.num[i] > 0 <=> i \in FundedColumns

\* a failed solve over more columns than the aggressive fallback funds,
\* answered with the fallback weights
C3_Witness ==
    /\ s_pc = "done"
    /\ ~s_solver.success
    /\ s_aggressiveness > 7000
    /\ Len(s_asset_names) > 5
    /\ \E i \in 1..Len(s_asset_names) : s_weights.num[i] = 0
    /\ s_weights # s_solver.x
    /\ s_result.optimization_success = FALSE

\* The ceilings leave room for a portfolio: they sum to at least 1
CeilingsFeasible == SumSeq(s_bounds) >= 1000000

\* C16: every weight returned by optimize is at most the ceiling
\* calculate_weight_limit(aggressiveness, asset) within 1e-6, on the
\* converged path and on the fallback path alike (checked where the
\* ceilings leave room for a portfolio)
C16_WeightsUnderCeiling ==
    (s_pc = "done" /\ CeilingsFeasible) =>
        \A i \in 1..Len(s_asset_names) :
            FracLeq(s_weights.num[i], s_weights.den, s_bounds[i] + 1, 1000000)

\* C22: calculate_weight_limit is non-decreasing in aggressiveness for
\* every asset name: the ceilings computed for the aggressiveness of this
\* run are not greater than the ceilings of any greater aggressiveness
C22_CeilingsWidenWithAggressiveness ==
    (s_pc \in {"raised", "minimized", "done"}) =>
        \A b \in AggressivenessValues :
            (s_aggressiveness <= b) =>
                \A i \in 1..Len(s_asset_names) :
                    s_bounds[i] <= calculate_weight_limit(b, s_asset_names[i])

(***************************************************************************)
(* portfolio/optimizer_v2.py                                               *)
(*                                                                         *)
(* Units.  Allocation limits are in millionths, allocations in 1/10000,    *)
(* investment_duration_years in whole years.  The assets that              *)
(* load_all_assets finds depend on the data files and are an input.        *)
(***************************************************************************)

\* MarketDataManager.asset_metadata: name, category, risk_level of six assets
asset_metadata ==
    << [key |-> "US_Large_Cap_SP500", name |-> "S&P 500",
        category |-> "equity", risk_level |-> 3],
       [key |-> "Israel_SME60", name |-> "SME 60",
        category |-> "equity", risk_level |-> 5],
       [key |-> "US_Gov_Bonds_Short", name |-> "US Treasury Short",
        category |-> "bond", risk_level |-> 1],
       [key |-> "Israel_TelBond_60", name |-> "TelBond 60",
        category |-> "bond", risk_level |-> 2],
       [key |-> "Gold_Futures", name |-> "Gold",
        category |-> "commodity", risk_level |-> 3],
       [key |-> "Oil_Brent_Futures", name |-> "Brent Oil",
        category |-> "commodity", risk_level |-> 5] >>

\* 'Short' in metadata.name
NameHasShort(metadata) == metadata.name = "US Treasury Short"

\* _filter_assets_by_duration
_filter_assets_by_duration(all_assets, investment_duration_years) ==
    SelectSeq(all_assets, LAMBDA metadata :
        IF investment_duration_years < 2
          THEN /\ ~(metadata.category = "commodity" /\ metadata.risk_level > 3)
               /\ ~(metadata.category = "equity" /\ metadata.risk_level > 4)
        ELSE IF investment_duration_years > 15
          THEN ~(metadata.category = "bond" /\ NameHasShort(metadata))
        ELSE TRUE)

\* _get_duration_adjusted_constraints
_get_duration_adjusted_constraints(risk_level, investment_duration_years) ==
    LET base_equity_max == IF risk_level <= 3 THEN 600000
                           ELSE IF risk_level <= 7 THEN 800000 ELSE 950000
        base_min_bond == IF risk_level <= 3 THEN 250000
                         ELSE IF risk_level <= 7 THEN 100000 ELSE 0
        has_min_bond == risk_level <= 7
        \* min(investment_duration_years / 10.0, 1.5), in tenths
        duration_factor == Min(investment_duration_years, 15)
        adjusted_equity_max == Min((base_equity_max * duration_factor) \div 10, 950000)
        short == investment_duration_years < 2
    IN  [max_single_asset |-> IF risk_level <= 3 THEN 350000
                              ELSE IF risk_level <= 7 THEN 400000 ELSE 500000,
         min_single_asset |-> 0,
         max_category_allocation |->
             [c \in {"equity"} |->
                 IF short THEN Min(adjusted_equity_max, 500000)
                 ELSE adjusted_equity_max],
         min_category_allocation |->
             [c \in (IF has_min_bond \/ short THEN {"bond"} ELSE {}) |->
                 IF short THEN Max(base_min_bond, 300000) ELSE base_min_bond],
         \* (0.08 + (risk_level - 1) * 0.17 / 9) * (1 + duration_factor * 0.3)
         max_volatility |->
             [num |-> (72 + 17 * (risk_level - 1)) * (100 + 3 * duration_factor),
              den |-> 90000]]

\* np.ones(n_assets) / n_assets
EqualWeights(n) == [num |-> [i \in 1..n |-> 1], den |-> n]

\* allocation: the assets above 0.5%, rounded to 4 decimals
AllocationOf(weights) ==
    LET included == {i \in 1..Len(weights.num) : WeightAbove(weights, i, 5, 1000)}
    IN  [i \in included |-> Round4(weights, i)]

\* category_allocations.get(category, 0), in 1/10000
CategoryAllocation(allocation, assets, category) ==
    SumOver(allocation, {i \in DOMAIN allocation : assets[i].category = category})

\* _validate_constraints
_validate_constraints(weights, allocation, constraints, assets) ==
    /\ \A i \in 1..Len(weights.num) :
          /\ FracLeq(weights.num[i], weights.den,
                     constraints.max_single_asset + 1, 1000000)
          /\ constraints.min_single_asset = 0 \/
                FracLeq(constraints.min_single_asset - 1, 1000000,
                        weights.num[i], weights.den)
    /\ \A c \in DOMAIN constraints.max_category_allocation :
          100 * CategoryAllocation(allocation, assets, c)
              <= constraints.max_category_allocation[c] + 1
    /\ \A c \in DOMAIN constraints.min_category_allocation :
          100 * CategoryAllocation(allocation, assets, c)
              >= constraints.min_category_allocation[c] - 1

\* The subsequences of a sequence
RECURSIVE SubSequences(_)
SubSequences(seq) ==
    IF seq = <<>> THEN {<<>>}
    ELSE LET rest == SubSequences(Tail(seq))
         IN  rest \cup {<<Head(seq)>> \o r : r \in rest}

RiskLevels == {3, 7, 10}

DurationYears == {1, 10, 20}

InitAdvanced ==
    /\ entry = "AdvancedPortfolioOptimizer.optimize_portfolio"
    /\ responses_dict = <<>>
    /\ pc = "idle"
    /\ risk_profile = NoProfile
    /\ error = NoError
    /\ http_response = NoResponse
    /\ optimizer_constructed = TRUE
    /\ optimizer_runs = 0
    /\ UniIdle
    /\ SortinoIdle
    /\ FloatIdle
    /\ ExtIdle
    /\ a_pc = "init"
    /\ \E risk_level \in RiskLevels : a_risk_level = risk_level
    /\ \E years \in DurationYears : a_duration_years = years
    /\ \E all_assets \in SubSequences(asset_metadata) : a_all_assets = all_assets
    /\ a_filtered_assets = <<>>
    /\ a_constraints = NoConstraints
    /\ a_solver = NoSolver
    /\ a_weights = NoWeights
    /\ a_result = NoAdvancedResult

\* optimize_portfolio up to the call of _optimize_weights: fewer than two
\* assets after the filter raise ValueError
v2_optimize_portfolio_begin ==
    /\ a_pc = "init"
    /\ LET filtered_assets ==
               _filter_assets_by_duration(a_all_assets, a_duration_years)
       IN  /\ a_filtered_assets' = filtered_assets
           /\ IF Len(filtered_assets) < 2
                THEN /\ a_pc' = "raised"
                     /\ UNCHANGED a_constraints
                ELSE /\ a_pc' = "optimizing"
                     /\ a_constraints' = _get_duration_adjusted_constraints(
                                             a_risk_level, a_duration_years)
    /\ UNCHANGED <<a_risk_level, a_duration_years, a_all_assets, a_solver,
                   a_weights, a_result>>
    /\ UNCHANGED <<kyc_vars, uni_vars, sor_vars, flt_vars, ext_vars>>

\* _optimize_weights: result.x when SLSQP reports success (it then ends
\* inside the bounds), equal weights when it does not
_optimize_weights ==
    /\ a_pc = "optimizing"
    /\ LET n_assets == Len(a_filtered_assets)
       IN  \/ /\ a_solver' = [outcome |-> "raised", success |-> FALSE, x |-> NoWeights]
              /\ a_pc' = "raised"
              /\ UNCHANGED a_weights
           \/ \E success \in BOOLEAN,
                 x \in GridVectors(n_assets) \cup {EqualWeights(n_assets)} :
                 /\ success => \A i \in 1..n_assets :
                       FracLeq(x.num[i], x.den, a_constraints.max_single_asset, 1000000)
                 /\ a_solver' = [outcome |-> "returned", success |-> success, x |-> x]
                 /\ a_weights' = IF ~success THEN EqualWeights(n_assets) ELSE x
                 /\ a_pc' = "weighted"
    /\ UNCHANGED <<a_risk_level, a_duration_years, a_all_assets,
                   a_filtered_assets, a_constraints, a_result>>
    /\ UNCHANGED <<kyc_vars, uni_vars, sor_vars, flt_vars, ext_vars>>

\* optimize_portfolio after _optimize_weights: the result it returns
v2_optimize_portfolio_end ==
    /\ a_pc = "weighted"
    /\ LET allocation == AllocationOf(a_weights)
       IN  a_result' =
              [allocation |-> allocation,
               optimization_success |-> TRUE,
               constraints_satisfied |->
                   _validate_constraints(a_weights, allocation, a_constraints,
                                         a_filtered_assets)]
    /\ a_pc' = "done"
    /\ UNCHANGED <<a_risk_level, a_duration_years, a_all_assets,
                   a_filtered_assets, a_constraints, a_solver, a_weights>>
    /\ UNCHANGED <<kyc_vars, uni_vars, sor_vars, flt_vars, ext_vars>>

NextAdvanced ==
    \/ v2_optimize_portfolio_begin
    \/ _optimize_weights
    \/ v2_optimize_portfolio_end

SpecAdvanced == InitAdvanced /\ [][NextAdvanced]_vars

\* C15: when SLSQP does not converge the equal-weight fallback is returned
\* and optimization_success is False exactly when the solver did not
\* converge
C15_NonConvergenceVisible ==
    (a_pc = "done") =>
        /\ ~a_solver.success => a_weights = EqualWeights(Len(a_filtered_assets))
        /\ a_result.optimization_success = a_solver.success

(***************************************************************************)
(* kyc/risk_assessor.py in IEEE 754 double arithmetic                      *)
(*                                                                         *)
(* Python floats are binary64: every +, -, * and / returns the exact       *)
(* result rounded to 53 significant bits, ties to even.  A non-negative    *)
(* double is held here as the natural number x * 2^FractionBits, written   *)
(* as its digits in base LimbBase, least significant first, without        *)
(* leading zeros (<<>> is 0).  Every double that arises in the assessor    *)
(* is a multiple of 2^-FractionBits, so the representation is exact.       *)
(***************************************************************************)

LimbBase == 32768

LimbBits == 15

FractionBits == 120

RECURSIVE BNorm(_)
BNorm(a) ==
    IF a = <<>> THEN <<>>
    ELSE IF a[Len(a)] = 0 THEN BNorm(SubSeq(a, 1, Len(a) - 1))
    ELSE a

\* a + b + carry
RECURSIVE BAddC(_, _, _)
BAddC(a, b, carry) ==
    IF a = <<>> /\ b = <<>> THEN (IF carry = 0 THEN <<>> ELSE <<carry>>)
    ELSE LET x == (IF a = <<>> THEN 0 ELSE Head(a))
                  + (IF b = <<>> THEN 0 ELSE Head(b)) + carry
         IN  <<x % LimbBase>>
             \o BAddC(IF a = <<>> THEN <<>> ELSE Tail(a),
                      IF b = <<>> THEN <<>> ELSE Tail(b), x \div LimbBase)

BAdd(a, b) == BAddC(a, b, 0)

\* a - b - borrow, for a >= b + borrow
RECURSIVE BSubB(_, _, _)
BSubB(a, b, borrow) ==
    IF a = <<>> THEN <<>>
    ELSE LET x == Head(a) - (IF b = <<>> THEN 0 ELSE Head(b)) - borrow
         IN  <<x % LimbBase>>
             \o BSubB(Tail(a), IF b = <<>> THEN <<>> ELSE Tail(b),
                      IF x < 0 THEN 1 ELSE 0)

BSub(a, b) == BNorm(BSubB(a, b, 0))

\* a <= b
BLeq(a, b) ==
    IF Len(a) # Len(b) THEN Len(a) < Len(b)
    ELSE \/ a = b
         \/ LET top == CHOOSE i \in 1..Len(a) :
                           /\ a[i] # b[i]
                           /\ \A j \in (i + 1)..Len(a) : a[j] = b[j]
            IN  a[top] < b[top]

\* a * k + carry, for k < LimbBase
RECURSIVE BMulSmallC(_, _, _)
BMulSmallC(a, k, carry) ==
    IF a = <<>> THEN (IF carry = 0 THEN <<>> ELSE <<carry>>)
    ELSE LET x == Head(a) * k + carry
         IN  <<x % LimbBase>> \o BMulSmallC(Tail(a), k, x \div LimbBase)

RECURSIVE BMul(_, _)
BMul(a, b) ==
    IF a = <<>> \/ b = <<>> THEN <<>>
    ELSE BNorm(BAdd(BMulSmallC(a, Head(b), 0), <<0>> \o BMul(a, Tail(b))))

\* the remainder of (a without its i - 1 lowest digits) divided by w
RECURSIVE BRem(_, _, _)
BRem(a, w, i) ==
    IF i > Len(a) THEN 0 ELSE (BRem(a, w, i + 1) * LimbBase + a[i]) % w

\* quotient and remainder of a / w, for 0 < w < LimbBase
BDivSmall(a, w) ==
    [q |-> BNorm([i \in 1..Len(a) |->
                     (BRem(a, w, i + 1) * LimbBase + a[i]) \div w]),
     r |-> BRem(a, w, 1)]

\* a * 2^d
BShl(a, d) ==
    IF a = <<>> THEN <<>>
    ELSE [i \in 1..(d \div LimbBits) |-> 0] \o BMulSmallC(a, 2^(d % LimbBits), 0)

\* floor(a / 2^d)
BShr(a, d) ==
    IF Len(a) <= d \div LimbBits THEN <<>>
    ELSE BDivSmall(SubSeq(a, (d \div LimbBits) + 1, Len(a)), 2^(d % LimbBits)).q

\* the number of binary digits of a
BitLen(a) ==
    IF a = <<>> THEN 0
    ELSE LimbBits * (Len(a) - 1)
         + (CHOOSE n \in 1..LimbBits : 2^(n - 1) <= a[Len(a)] /\ a[Len(a)] < 2^n)

\* a, or a plus a positive fraction when sticky, rounded to 53 significant
\* bits with ties to even
Round53(a, sticky) ==
    LET d == BitLen(a) - 53
    IN  IF d <= 0 THEN a
        ELSE LET q == BShr(a, d)
                 r == BSub(a, BShl(q, d))
                 half == BShl(<<1>>, d - 1)
                 up == IF r = half THEN sticky \/ q[1] % 2 = 1 ELSE ~BLeq(r, half)
             IN  BShl(IF up THEN BAdd(q, <<1>>) ELSE q, d)

\* float(n) for an int 0 <= n < LimbBase
FromInt(n) == IF n = 0 THEN <<>> ELSE BShl(<<n>>, FractionBits)

\* int(x): the integer part
FloatToInt(x) == IF Len(x) <= FractionBits \div LimbBits THEN 0
                 ELSE x[(FractionBits \div LimbBits) + 1]

FAdd(x, y) == Round53(BAdd(x, y), FALSE)

\* x - y for x >= y
FSub(x, y) == Round53(BSub(x, y), FALSE)

FMul(x, y) == BShr(Round53(BMul(x, y), FALSE), FractionBits)

\* x / w for an int 0 < w < LimbBase
FDiv(x, w) == Round53(BDivSmall(x, w).q, BDivSmall(x, w).r # 0)

\* the double a decimal literal num / den denotes
Literal(num, den) == FDiv(FromInt(num), den)

FMin(x, y) == IF BLeq(x, y) THEN x ELSE y

\* SCORING_WEIGHTS as doubles
WeightFloat(component) == Literal(SCORING_WEIGHTS[component], 100)

\* the weighted sum without the goal term
WeightedSumFloatWithoutGoal(h, l, e, f, g) ==
    FAdd(FAdd(FAdd(FMul(FromInt(h), WeightFloat("horizon")),
                   FMul(FromInt(l), WeightFloat("loss_tolerance"))),
              FMul(FromInt(e), WeightFloat("experience"))),
         FMul(FromInt(f), WeightFloat("financial")))

\* the weighted sum, each product and each partial sum rounded, in the
\* order horizon, loss_tolerance, experience, financial, goal
WeightedSumFloat(h, l, e, f, g) ==
    FAdd(FAdd(FAdd(FAdd(FMul(FromInt(h), WeightFloat("horizon")),
                        FMul(FromInt(l), WeightFloat("loss_tolerance"))),
                   FMul(FromInt(e), WeightFloat("experience"))),
              FMul(FromInt(f), WeightFloat("financial"))),
         FMul(FromInt(g), WeightFloat("goal")))

\* one pass of the loop body of _apply_consistency_adjustments
AdjustOneFloat(adjusted_score, resp, inconsistency) ==
    LET action == inconsistency.suggested_action
    IN  CASE action = "reduce_risk_score" -> FMul(adjusted_score, Literal(8, 10))
          [] action = "cap_at_moderate" -> FMin(adjusted_score, FromInt(65))
          [] action = "reduce_to_conservative" -> FMin(adjusted_score, FromInt(45))
          [] action = "use_conservative_score" ->
                WeightedSumFloat(resp.horizon_score,
                                 Min(resp.sleep_score, resp.loss_tolerance),
                                 resp.experience_score, resp.financial_score,
                                 resp.goal_score)
          [] OTHER -> adjusted_score

RECURSIVE AdjustLoopFloat(_, _, _)
AdjustLoopFloat(adjusted_score, resp, inconsistencies) ==
    IF inconsistencies = <<>>
    THEN adjusted_score
    ELSE AdjustLoopFloat(AdjustOneFloat(adjusted_score, resp, Head(inconsistencies)),
                         resp, Tail(inconsistencies))

\* _score_to_risk_level on a double
ScoreToRiskLevelFloat(score) ==
    IF BLeq(score, FromInt(25))
    THEN Max(1, Min(3, FloatToInt(
             FAdd(FromInt(1), FMul(FDiv(score, 25), FromInt(2))))))
    ELSE IF BLeq(score, FromInt(45))
    THEN Max(3, Min(5, FloatToInt(
             FAdd(FromInt(3), FMul(FDiv(FSub(score, FromInt(25)), 20), FromInt(2))))))
    ELSE IF BLeq(score, FromInt(65))
    THEN Max(5, Min(7, FloatToInt(
             FAdd(FromInt(5), FMul(FDiv(FSub(score, FromInt(45)), 20), FromInt(2))))))
    ELSE IF BLeq(score, FromInt(85))
    THEN Max(7, Min(9, FloatToInt(
             FAdd(FromInt(7), FMul(FDiv(FSub(score, FromInt(65)), 20), FromInt(2))))))
    ELSE Max(9, Min(10, FloatToInt(
             FAdd(FromInt(9), FMul(FDiv(FSub(score, FromInt(85)), 15), FromInt(1))))))

\* _map_to_risk_category on a double
MapToRiskCategoryFloat(composite_score) ==
    LET hits == {i \in 1..Len(RISK_CATEGORIES) :
                    /\ BLeq(FromInt(RISK_CATEGORIES[i].score_range[1]), composite_score)
                    /\ BLeq(composite_score, FromInt(RISK_CATEGORIES[i].score_range[2]))}
    IN  IF hits # {}
        THEN [category |-> RISK_CATEGORIES[CHOOSE i \in hits :
                                               \A j \in hits : i <= j].name_en,
              risk_level |-> ScoreToRiskLevelFloat(composite_score)]
        ELSE [category |-> "Moderate", risk_level |-> 5]

\* process_responses on six valid answers
AssessProfileFloat(resp) ==
    LET inconsistencies == _validate_consistency(resp)
        composite_score == WeightedSumFloat(resp.horizon_score, resp.loss_tolerance,
                                            resp.experience_score,
                                            resp.financial_score, resp.goal_score)
        adjusted_score == FMin(FromInt(100),
                               AdjustLoopFloat(composite_score, resp, inconsistencies))
        mapped == MapToRiskCategoryFloat(adjusted_score)
    IN  [risk_level |-> mapped.risk_level,
         category_english |-> mapped.category,
         composite_score |-> adjusted_score,
         equity_range |-> CategoryByName(mapped.category).equity_range,
         inconsistencies |-> inconsistencies]

\* the largest answer KYCResponse accepts
MaxScore == 100

\* the same answer to all six questions
AllEqual(v) ==
    [horizon_score |-> v, loss_tolerance |-> v, experience_score |-> v,
     financial_score |-> v, goal_score |-> v, sleep_score |-> v]

\* answers that trigger each consistency rule
MixedResponses ==
    {[horizon_score |-> h, loss_tolerance |-> 100, experience_score |-> e,
      financial_score |-> f, goal_score |-> 100, sleep_score |-> s] :
        h \in {29, 100}, e \in {29, 100}, f \in {39, 100}, s \in {59, 100}}

InitFloat ==
    /\ entry = "process_responses"
    /\ responses_dict = <<>>
    /\ pc = "idle"
    /\ risk_profile = NoProfile
    /\ error = NoError
    /\ http_response = NoResponse
    /\ optimizer_constructed = FALSE
    /\ optimizer_runs = 0
    /\ UniIdle
    /\ SortinoIdle
    /\ AdvancedIdle
    /\ ExtIdle
    /\ f_pc = "call"
    /\ \/ \E v \in 0..MaxScore : f_responses = AllEqual(v)
       \/ \E resp \in MixedResponses : f_responses = resp
    /\ f_profile = NoFloatProfile

process_responses_float ==
    /\ f_pc = "call"
    /\ f_profile' = AssessProfileFloat(f_responses)
    /\ f_pc' = "returned"
    /\ UNCHANGED f_responses
    /\ UNCHANGED <<kyc_vars, uni_vars, sor_vars, adv_vars, ext_vars>>

NextFloat == process_responses_float

SpecFloat == InitFloat /\ [][NextFloat]_vars

\* all six answers are the same value
AllEqualAnswered ==
    /\ f_pc = "returned"
    /\ f_responses = AllEqual(f_responses.horizon_score)

\* |x - n| <= 2^-40 for a double x and an int n
NearInt(x, n) ==
    LET y == FromInt(n)
    IN  BLeq(IF BLeq(x, y) THEN BSub(y, x) ELSE BSub(x, y),
             BShl(<<1>>, FractionBits - 40))

\* category and equity_range (in percent) of the band of v
BandResult(v) ==
    IF v <= 25 THEN <<"Ultra Conservative", <<5, 20>>>>
    ELSE IF v <= 45 THEN <<"Conservative", <<15, 40>>>>
    ELSE IF v <= 65 THEN <<"Moderate", <<30, 65>>>>
    ELSE IF v <= 85 THEN <<"Aggressive", <<55, 80>>>>
    ELSE <<"Very Aggressive", <<70, 95>>>>

\* what C11 asks of an all-equal response besides the composite score
AllEqualOutcome ==
    LET v == f_responses.horizon_score
    IN  /\ f_profile.inconsistencies = <<>>
        /\ f_profile.category_english = BandResult(v)[1]
        /\ f_profile.equity_range = BandResult(v)[2]
        /\ (v = 0) => f_profile.risk_level <= 3
        /\ (v = 100) => f_profile.risk_level >= 9

MaxPeriods == 3

\* portfolio_returns = self.returns_data @ weights, in 1 / weights.den
PortfolioReturns(returns_data, weights) ==
    [t \in 1..Len(returns_data) |->
        SumSeq([j \in 1..Len(weights.num) |-> returns_data[t][j] * weights.num[j]])]

\* the periods with a return that is not positive
DownsideReturnsWithZero(portfolio_returns) ==
    SelectSeq(portfolio_returns, LAMBDA x : x <= 0)

\* portfolio_returns[portfolio_returns < 0]
DownsideReturns(portfolio_returns) ==
    SelectSeq(portfolio_returns, LAMBDA x : x < 0)

\* Series.std() (ddof = 1) by its kind: nan for one value, else the root of
\* sum((x - mean)^2) / (k - 1), which is 0 exactly when all values are equal
SampleStdKind(xs) ==
    LET k == Len(xs)
        sum == SumSeq(xs)
        squares == SumSeq([i \in 1..k |-> xs[i] * xs[i]])
    IN  IF k <= 1 THEN "nan"
        ELSE IF k * squares - sum * sum = 0 THEN "zero"
        ELSE "positive"

calculate_sortino_ratio(returns_data, weights, risk_free_rate) ==
    LET portfolio_returns == PortfolioReturns(returns_data, weights)
        n == Len(portfolio_returns)
        \* (expected_return - risk_free_rate) * n * den, with
        \* expected_return = mean * 12
        excess == 12 * SumSeq(portfolio_returns) - risk_free_rate * n * weights.den
        downside_returns == DownsideReturns(portfolio_returns)
        used_floor == Len(downside_returns) = 0
        deviation == IF used_floor THEN "positive"
                     ELSE SampleStdKind(downside_returns)
    IN  [kind |-> IF n = 0 \/ deviation = "nan" THEN "nan"
                  ELSE IF deviation = "zero"
                       THEN IF excess = 0 THEN "nan" ELSE "inf"
                  ELSE "finite",
         used_floor |-> used_floor,
         divided_by_zero |-> deviation = "zero"]

\* returns_data of two columns and up to MaxPeriods rows; it has two rows
\* at least, or ILSDataManager._calculate_statistics raised on index[-1] or
\* on n_obs / years and no data manager was constructed
ReturnsData ==
    UNION {[1..n -> {<<a, b>> : a \in {-2, 0, 2}, b \in {-2, 0, 2}}] : n \in 2..MaxPeriods}

\* one column alone, or both in equal parts
RatioWeights ==
    {[num |-> <<2, 0>>, den |-> 2], [num |-> <<0, 2>>, den |-> 2],
     [num |-> <<1, 1>>, den |-> 2]}

InitRatio ==
    /\ entry = "calculate_sortino_ratio"
    /\ responses_dict = <<>>
    /\ pc = "idle"
    /\ risk_profile = NoProfile
    /\ error = NoError
    /\ http_response = NoResponse
    /\ optimizer_constructed = TRUE
    /\ optimizer_runs = 0
    /\ UniIdle
    /\ SortinoIdle
    /\ AdvancedIdle
    /\ FloatIdle
    /\ IlsIdle
    /\ DmIdle
    /\ r_pc = "call"
    /\ r_returns_data \in ReturnsData
    /\ r_weights \in RatioWeights
    /\ r_risk_free_rate \in {0, 4}
    /\ r_sortino = NoSortino

calculate_sortino_ratio_call ==
    /\ r_pc = "call"
    /\ r_sortino' = calculate_sortino_ratio(r_returns_data, r_weights,
                                            r_risk_free_rate)
    /\ r_pc' = "returned"
    /\ UNCHANGED <<r_returns_data, r_weights, r_risk_free_rate>>
    /\ UNCHANGED <<kyc_vars, uni_vars, sor_vars, adv_vars, flt_vars, ils_vars,
                   dm_vars>>

NextRatio == calculate_sortino_ratio_call

SpecRatio == InitRatio /\ [][NextRatio]_vars

\* the portfolio return series of the call has no negative period
NoNegativePeriod ==
    \A t \in 1..Len(r_returns_data) :
        PortfolioReturns(r_returns_data, r_weights)[t] >= 0

\* floor deviation used, nothing divided by zero, a finite ratio returned
FloorUsedAndFinite ==
    /\ r_sortino.used_floor
    /\ ~r_sortino.divided_by_zero
    /\ r_sortino.kind = "finite"

\* C23: for every portfolio return series with no negative period
\* calculate_sortino_ratio uses the floor downside deviation 0.001,
\* divides by no zero and returns a finite number
C23_FloorWithoutNegativePeriod ==
    (r_pc = "returned" /\ NoNegativePeriod) => FloorUsedAndFinite

\* three periods, one of them flat and none negative, ratio finite
C23_Witness ==
    /\ r_pc = "returned"
    /\ Len(r_returns_data) = 3
    /\ NoNegativePeriod
    /\ \E t \in 1..3 : PortfolioReturns(r_returns_data, r_weights)[t] = 0
    /\ FloorUsedAndFinite

\* C30: calculate_sortino_ratio returns a finite number for every portfolio
\* return series with at least one observation, whatever the number of its
\* negative periods, also when exactly one period is negative
C30_FiniteForEverySeries ==
    (r_pc = "returned" /\ Len(r_returns_data) >= 1) =>
        r_sortino.kind = "finite"

(***************************************************************************)
(* portfolio/ils_data_manager.py: ILSDataManager._process_ils_data         *)
(*                                                                         *)
(* A series is held by the set of its dates (numbered periods); the        *)
(* values play no part in which assets are kept.  The files found in       *)
(* data_path are an input: the raw assets with the dates of their returns, *)
(* the FX series that exist, and the dates of the risk-free rate.          *)
(***************************************************************************)

\* len(common_dates) < 10 in _convert_asset_to_ils
MinOverlap == 10

\* metadata.currency of the asset, "ILS" where asset_metadata has no entry
CurrencyOf(asset_name) ==
    CASE asset_name = "US_Large_Cap_SP500" -> "USD"
      [] asset_name = "Germany_DAX" -> "EUR"
      [] asset_name = "Japan_MSCI" -> "JPY"
      [] OTHER -> "ILS"

\* _convert_asset_to_ils refusing an overlap of exactly 10 dates
_convert_asset_to_ilsOver10(asset, fx_dates) ==
    LET fx_returns == fx_dates \ {d \in fx_dates : \A o \in fx_dates : d <= o}
        common_dates == asset.dates \cap fx_returns
    IN  IF Cardinality(common_dates) <= MinOverlap
        THEN [ok |-> FALSE, dates |-> {}]
        ELSE [ok |-> TRUE, dates |-> common_dates]

\* _convert_asset_to_ils: the dates of the ILS return series, or None
_convert_asset_to_ils(asset, fx_dates) ==
    LET first(S) == {d \in S : \A o \in S : d <= o}
    IN  IF asset.monthly
        THEN LET \* fx_monthly['fx_rate'].pct_change().dropna()
                 fx_returns == fx_dates \ first(fx_dates)
                 common_dates == asset.dates \cap fx_returns
             IN  IF Cardinality(common_dates) < MinOverlap
                 THEN [ok |-> FALSE, dates |-> {}]
                 ELSE [ok |-> TRUE, dates |-> common_dates]
        ELSE \* merge_asof backward, then pct_change of the merged rate:
             \* a row has a return when it and the row before have a rate
             LET rated == {d \in asset.dates : \E f \in fx_dates : f <= d}
             IN  [ok |-> TRUE, dates |-> rated \ first(rated)]

\* the loop of _process_ils_data: the entries of ils_assets, in order
RECURSIVE IlsAssets(_, _)
IlsAssets(raw_assets, exchange_rates) ==
    IF raw_assets = <<>> THEN <<>>
    ELSE LET asset == Head(raw_assets)
             currency == CurrencyOf(asset.name)
             fx_key == currency \o "_ILS"
             rest == IlsAssets(Tail(raw_assets), exchange_rates)
         IN  IF currency = "ILS"
             THEN <<[name |-> asset.name, dates |-> asset.dates]>> \o rest
             ELSE IF fx_key \in DOMAIN exchange_rates
             THEN LET ils_return ==
                          _convert_asset_to_ils(asset, exchange_rates[fx_key])
                  IN  IF ils_return.ok
                      THEN <<[name |-> asset.name, dates |-> ils_return.dates]>> \o rest
                      ELSE rest
             ELSE rest

\* _process_ils_data: returns_data and how the build ended
_process_ils_data(raw_assets, exchange_rates, risk_free_rate) ==
    LET ils_assets == IlsAssets(raw_assets, exchange_rates)
        columns == [k \in 1..Len(ils_assets) |-> ils_assets[k].name]
        \* pd.DataFrame(ils_assets).index, cut to the risk-free dates
        common_dates ==
            UNION {ils_assets[k].dates : k \in 1..Len(ils_assets)}
                \cap risk_free_rate
        \* ffill().dropna(): a row stays when every column has a value at
        \* or before it
        index == {d \in common_dates :
                    \A k \in 1..Len(ils_assets) :
                        \E o \in ils_assets[k].dates \cap common_dates : o <= d}
    IN  IF ils_assets = <<>>
        THEN [returns_data |-> NoReturnsData, error |-> "ValueError: No valid assets found"]
        ELSE [returns_data |-> [columns |-> columns, index |-> index],
              \* _calculate_statistics: index[-1] of no row, n_obs / years
              error |-> IF index = {} THEN "IndexError"
                        ELSE IF Cardinality(index) = 1 THEN "ZeroDivisionError"
                        ELSE ""]

\* Files of data_path: name, date range and frequency of each raw asset
RawAssetChoices ==
    {<<>>} \cup
    {<<[name |-> "US_Large_Cap_SP500", dates |-> a, monthly |-> m]>> \o tail :
        a \in {1..12, 3..12}, m \in BOOLEAN,
        tail \in {<<>>,
                  <<[name |-> "Germany_DAX", dates |-> 1..12, monthly |-> TRUE]>>,
                  <<[name |-> "Israel_SME60", dates |-> 11..14, monthly |-> TRUE]>>,
                  <<[name |-> "Japan_MSCI", dates |-> 1..12, monthly |-> TRUE],
                    [name |-> "Israel_SME60", dates |-> 1..12, monthly |-> TRUE]>>}}
    \cup
    {<<[name |-> "Germany_DAX", dates |-> 1..12, monthly |-> TRUE]>>}

\* The FX files that exist, with the dates of their rates
ExchangeRateChoices ==
    [{"USD_ILS", "EUR_ILS"} -> {{}, 1..12, 2..12, 4..12}]

InitIls ==
    /\ entry = "ILSDataManager"
    /\ responses_dict = <<>>
    /\ pc = "idle"
    /\ risk_profile = NoProfile
    /\ error = NoError
    /\ http_response = NoResponse
    /\ optimizer_constructed = FALSE
    /\ optimizer_runs = 0
    /\ UniIdle
    /\ SortinoIdle
    /\ AdvancedIdle
    /\ FloatIdle
    /\ RatioIdle
    /\ DmIdle
    /\ i_pc = "loaded"
    /\ i_raw_assets \in RawAssetChoices
    /\ \E fx \in ExchangeRateChoices :
          \* an FX pair whose file is missing is no key of exchange_rates
          i_exchange_rates = [k \in {c \in DOMAIN fx : fx[c] # {}} |-> fx[k]]
    /\ i_risk_free_rate \in {1..14, 12..14, 13..14}
    /\ i_returns_data = NoReturnsData
    /\ i_error = ""

process_ils_data ==
    /\ i_pc = "loaded"
    /\ LET built == _process_ils_data(i_raw_assets, i_exchange_rates,
                                      i_risk_free_rate)
       IN  /\ i_returns_data' = built.returns_data
           /\ i_error' = built.error
           /\ i_pc' = IF built.error = "" THEN "done" ELSE "raised"
    /\ UNCHANGED <<i_raw_assets, i_exchange_rates, i_risk_free_rate>>
    /\ UNCHANGED <<kyc_vars, uni_vars, sor_vars, adv_vars, flt_vars, rat_vars,
                   dm_vars>>

NextIls == process_ils_data

SpecIls == InitIls /\ [][NextIls]_vars

\* the names of the columns of returns_data
ColumnNames == {i_returns_data.columns[k] : k \in 1..Len(i_returns_data.columns)}

\* the raw assets whose native currency has no FX series
WithoutFxSeries ==
    {k \in 1..Len(i_raw_assets) :
        /\ CurrencyOf(i_raw_assets[k].name) # "ILS"
        /\ (CurrencyOf(i_raw_assets[k].name) \o "_ILS") \notin DOMAIN i_exchange_rates}

\* the raw assets in ILS (or without metadata), and those whose FX series
\* exists and has a return on at least 10 dates of the asset's returns
Convertible ==
    {k \in 1..Len(i_raw_assets) :
        LET asset == i_raw_assets[k]
            fx_key == CurrencyOf(asset.name) \o "_ILS"
        IN  \/ CurrencyOf(asset.name) = "ILS"
            \/ /\ fx_key \in DOMAIN i_exchange_rates
               /\ Cardinality({d \in asset.dates :
                                 /\ d \in i_exchange_rates[fx_key]
                                 /\ \E o \in i_exchange_rates[fx_key] : o < d})
                     >= MinOverlap}

MemoryExpiry == 3

\* cache_expiry_hours = 24, in units of 20 minutes
cache_expiry == 72

\* The instants at which calls are made: 40 minutes apart, 20 minutes
\* before the expiry of what was cached at 0, and after it
CallInstants == <<0, 2, 71, 73, 144>>

\* the assets of asset_metadata that are followed
AssetNames == <<"US_Large_Cap_SP500", "Gold_Futures">>

\* dict[key] = value
Put(dict, key, value) ==
    [k \in DOMAIN dict \cup {key} |-> IF k = key THEN value ELSE dict[k]]

\* _is_cache_valid(cache_path / f"{cache_key}.pkl")
_is_cache_valid(disk, cache_key, now) ==
    /\ cache_key \in DOMAIN disk
    /\ now - disk[cache_key].mtime < cache_expiry

\* load_asset_data: the caches after the call and the DataFrame returned;
\* a DataFrame is [asset_name |-> time of the read_csv it comes from]
load_asset_data(cache, now, asset_name) ==
    LET cache_key == "asset_data_" \o asset_name
    IN  IF /\ cache_key \in DOMAIN cache.memory_cache
           /\ now - cache.cache_timestamps[cache_key] < MemoryExpiry
        THEN [cache |-> cache, data |-> cache.memory_cache[cache_key]]
        ELSE IF _is_cache_valid(cache.disk, cache_key, now)
        THEN LET cached_data == cache.disk[cache_key].data
             IN  [cache |-> [cache EXCEPT
                     !.memory_cache = Put(@, cache_key, cached_data),
                     !.cache_timestamps = Put(@, cache_key, now)],
                  data |-> cached_data]
        ELSE LET df == [k \in {asset_name} |-> now]
             IN  [cache |-> [memory_cache |-> Put(cache.memory_cache, cache_key, df),
                             cache_timestamps |-> Put(cache.cache_timestamps, cache_key, now),
                             disk |-> Put(cache.disk, cache_key,
                                          [data |-> df, mtime |-> now])],
                  data |-> df]

\* the loop of load_all_assets over the first count assets: the caches and
\* asset_data, held as [asset_name |-> time of its read_csv]
RECURSIVE LoadEach(_, _, _)
LoadEach(cache, now, count) ==
    IF count = 0 THEN [cache |-> cache, data |-> <<>>]
    ELSE LET before == LoadEach(cache, now, count - 1)
             loaded == load_asset_data(before.cache, now, AssetNames[count])
         IN  [cache |-> loaded.cache,
              data |-> Put(before.data, AssetNames[count],
                           loaded.data[AssetNames[count]])]

\* load_all_assets() without a filter
load_all_assets(cache, now) ==
    LET cache_key == "all_assets"
    IN  IF _is_cache_valid(cache.disk, cache_key, now)
        THEN [cache |-> cache, data |-> cache.disk[cache_key].data]
        ELSE LET loaded == LoadEach(cache, now, Len(AssetNames))
             IN  [cache |-> [loaded.cache EXCEPT
                     !.disk = Put(@, cache_key,
                                  [data |-> loaded.data, mtime |-> now])],
                  data |-> loaded.data]

\* the three caches as one record
Caches ==
    [memory_cache |-> d_memory_cache, cache_timestamps |-> d_cache_timestamps,
     disk |-> d_disk]

InitCache ==
    /\ entry = "MarketDataManager"
    /\ responses_dict = <<>>
    /\ pc = "idle"
    /\ risk_profile = NoProfile
    /\ error = NoError
    /\ http_response = NoResponse
    /\ optimizer_constructed = FALSE
    /\ optimizer_runs = 0
    /\ UniIdle
    /\ SortinoIdle
    /\ AdvancedIdle
    /\ FloatIdle
    /\ RatioIdle
    /\ IlsIdle
    /\ d_now = 0
    /\ d_memory_cache = <<>>
    /\ d_cache_timestamps = <<>>
    /\ d_disk = <<>>
    /\ d_returned = NoCall
    /\ ThreadsIdle

OtherThanDm ==
    UNCHANGED <<kyc_vars, uni_vars, sor_vars, adv_vars, flt_vars, rat_vars, ils_vars>>

\* a call made by the one caller of the sequential specifications
Sequential == OtherThanDm /\ UNCHANGED th_vars

\* time passes between two calls
Tick ==
    /\ \E k \in 1..(Len(CallInstants) - 1) :
          /\ d_now = CallInstants[k]
          /\ d_now' = CallInstants[k + 1]
    /\ UNCHANGED <<d_memory_cache, d_cache_timestamps, d_disk, d_returned>>
    /\ Sequential

call_load_asset_data ==
    /\ \E k \in 1..Len(AssetNames) :
          LET done == load_asset_data(Caches, d_now, AssetNames[k])
          IN  /\ d_memory_cache' = done.cache.memory_cache
              /\ d_cache_timestamps' = done.cache.cache_timestamps
              /\ d_disk' = done.cache.disk
              /\ d_returned' = [op |-> "load_asset_data", at |-> d_now,
                                data |-> done.data]
    /\ UNCHANGED d_now
    /\ Sequential

call_load_all_assets ==
    /\ LET done == load_all_assets(Caches, d_now)
       IN  /\ d_memory_cache' = done.cache.memory_cache
           /\ d_cache_timestamps' = done.cache.cache_timestamps
           /\ d_disk' = done.cache.disk
           /\ d_returned' = [op |-> "load_all_assets", at |-> d_now,
                             data |-> done.data]
    /\ UNCHANGED d_now
    /\ Sequential

clear_cache ==
    /\ \E cache_type \in {"memory", "disk", "all"} :
          /\ IF cache_type \in {"memory", "all"}
             THEN d_memory_cache' = <<>> /\ d_cache_timestamps' = <<>>
             ELSE UNCHANGED <<d_memory_cache, d_cache_timestamps>>
          /\ IF cache_type \in {"disk", "all"}
             THEN d_disk' = <<>>
             ELSE UNCHANGED d_disk
          /\ d_returned' = [op |-> "clear_cache", at |-> d_now, data |-> <<>>]
    /\ UNCHANGED d_now
    /\ Sequential

NextCache ==
    \/ Tick
    \/ call_load_asset_data
    \/ call_load_all_assets
    \/ clear_cache

SpecCache == InitCache /\ [][NextCache]_vars

\* C29: after any sequence of load_asset_data, load_all_assets and
\* clear_cache calls, the data returned to a caller was read from its CSV
\* file no more than cache_expiry_hours before the call
C29_ServedDataWithinExpiry ==
    (d_returned.op \in {"load_asset_data", "load_all_assets"}) =>
        \A name \in DOMAIN d_returned.data :
            d_returned.at - d_returned.data[name] <= cache_expiry

\* len(common_dates) < 100 in calculate_returns_matrix
MinCommonDates == 100

\* str(sorted(v)) of a list of names
RECURSIVE StrOfNames(_)
StrOfNames(names) ==
    IF names = <<>> THEN ""
    ELSE Head(names) \o (IF Len(names) > 1 THEN ", " ELSE "") \o StrOfNames(Tail(names))

\* get_cache_key("returns_matrix", assets = ..., return_type = ...); the
\* keys stay under the 200 characters from which they are hashed
get_cache_key(operation, assets, return_type) ==
    operation \o "_assets_[" \o StrOfNames(assets) \o "]_return_type_" \o return_type

\* calculate_returns_matrix(asset_data) with the default return_type:
\* asset_data is [names |-> sorted names, history |-> <<first, last>> day of
\* the prices of every asset]; a result is held by its columns and index
calculate_returns_matrix(cache, now, asset_data, return_type) ==
    LET cache_key == get_cache_key("returns_matrix", asset_data.names, return_type)
        \* pct_change().dropna() loses the first day
        common_dates == <<asset_data.history[1] + 1, asset_data.history[2]>>
        result == [columns |-> asset_data.names, index |-> common_dates]
    IN  IF _is_cache_valid(cache.disk, cache_key, now)
        THEN [cache |-> cache, outcome |-> "returned",
              data |-> cache.disk[cache_key].data]
        ELSE IF common_dates[2] - common_dates[1] + 1 < MinCommonDates
        THEN [cache |-> cache, outcome |-> "ValueError", data |-> <<>>]
        ELSE [cache |-> [cache EXCEPT
                 !.disk = Put(@, cache_key, [data |-> result, mtime |-> now])],
              outcome |-> "returned", data |-> result]

\* The asset_data a caller passes: one asset or both, with a price history
\* that is too short, or ends on day 400, or on day 800
AssetDataChoices ==
    {[names |-> names, history |-> <<1, last>>] :
        names \in {<<"US_Large_Cap_SP500">>, <<"Gold_Futures", "US_Large_Cap_SP500">>},
        last \in {60, 400, 800}}

call_calculate_returns_matrix ==
    /\ \E asset_data \in AssetDataChoices :
          LET done == calculate_returns_matrix(Caches, d_now, asset_data, "daily")
          IN  /\ d_disk' = done.cache.disk
              /\ d_returned' = [op |-> "calculate_returns_matrix", at |-> d_now,
                                asset_data |-> asset_data,
                                outcome |-> done.outcome, data |-> done.data]
    /\ UNCHANGED <<d_now, d_memory_cache, d_cache_timestamps>>
    /\ Sequential

NextMatrix ==
    \/ Tick
    \/ call_calculate_returns_matrix
    \/ clear_cache

SpecMatrix == InitCache /\ [][NextMatrix]_vars

\* C25: calculate_returns_matrix returns a moment model computed from the
\* asset data of the current call: also after earlier calls with the same
\* asset names and return_type but another price history, the result
\* covers the dates of the data passed in
C25_ResultFromCurrentData ==
    (d_returned.op = "calculate_returns_matrix" /\ d_returned.outcome = "returned") =>
        /\ d_returned.data.columns = d_returned.asset_data.names
        /\ d_returned.data.index = <<d_returned.asset_data.history[1] + 1,
                                     d_returned.asset_data.history[2]>>

(***************************************************************************)
(* Two threads on one MarketDataManager.  The object has no lock: every    *)
(* read or write of self._memory_cache and self._cache_timestamps is one   *)
(* step, and the steps of the threads interleave in any order.  A thread   *)
(* is at the line of data_manager.py it runs next.                         *)
(***************************************************************************)

\* f"asset_data_{asset_name}" of the call of thread t
CacheKeyOf(t) == "asset_data_" \o th_asset[t]

\* thread t goes to line, with its local DataFrame data
Goto(t, line, data) ==
    /\ th_pc' = [th_pc EXCEPT ![t] = line]
    /\ th_data' = [th_data EXCEPT ![t] = data]
    /\ UNCHANGED <<th_asset, th_result>>

\* the call of thread t ends: it returns data or lets the exception out
Finish(t, outcome, data) ==
    /\ th_pc' = [th_pc EXCEPT ![t] = "idle"]
    /\ th_result' = [th_result EXCEPT ![t] = [outcome |-> outcome, data |-> data]]
    /\ th_data' = [th_data EXCEPT ![t] = <<>>]
    /\ UNCHANGED th_asset

OtherThanThreads == OtherThanDm /\ UNCHANGED <<d_now, d_returned>>

\* time passes while the threads run, up to 20 minutes before the disk
\* cache of what was saved at 0 expires
thread_tick == Tick /\ d_now' <= cache_expiry - 1

\* a thread calls load_asset_data(asset_name)
thread_load_asset_data ==
    /\ \E t \in Threads, k \in 1..Len(AssetNames) :
          /\ th_pc[t] = "idle"
          /\ th_pc' = [th_pc EXCEPT ![t] = "155"]
          /\ th_asset' = [th_asset EXCEPT ![t] = AssetNames[k]]
          /\ th_result' = [th_result EXCEPT ![t] = NoOutcome]
          /\ UNCHANGED th_data
    /\ UNCHANGED <<d_memory_cache, d_cache_timestamps, d_disk>>
    /\ OtherThanThreads

\* line 155: if cache_key in self._memory_cache
line_155_in_memory_cache ==
    /\ \E t \in Threads :
          /\ th_pc[t] = "155"
          /\ IF CacheKeyOf(t) \in DOMAIN d_memory_cache
             THEN Goto(t, "156", <<>>)
             ELSE Goto(t, "160", <<>>)
    /\ UNCHANGED <<d_memory_cache, d_cache_timestamps, d_disk>>
    /\ OtherThanThreads

\* line 156: datetime.now() - self._cache_timestamps[cache_key] under an hour
line_156_cache_timestamps ==
    /\ \E t \in Threads :
          /\ th_pc[t] = "156"
          /\ IF CacheKeyOf(t) \notin DOMAIN d_cache_timestamps
             THEN Finish(t, "KeyError", <<>>)
             ELSE IF d_now - d_cache_timestamps[CacheKeyOf(t)] < MemoryExpiry
             THEN Goto(t, "157", <<>>)
             ELSE Goto(t, "160", <<>>)
    /\ UNCHANGED <<d_memory_cache, d_cache_timestamps, d_disk>>
    /\ OtherThanThreads

\* line 157: return self._memory_cache[cache_key].copy()
line_157_return_memory ==
    /\ \E t \in Threads :
          /\ th_pc[t] = "157"
          /\ IF CacheKeyOf(t) \notin DOMAIN d_memory_cache
             THEN Finish(t, "KeyError", <<>>)
             ELSE Finish(t, "returned", d_memory_cache[CacheKeyOf(t)])
    /\ UNCHANGED <<d_memory_cache, d_cache_timestamps, d_disk>>
    /\ OtherThanThreads

\* lines 160-161 and 167-175: _load_from_cache; without a valid file,
\* read_csv
line_160_load_from_cache ==
    /\ \E t \in Threads :
          /\ th_pc[t] = "160"
          /\ IF _is_cache_valid(d_disk, CacheKeyOf(t), d_now)
             THEN Goto(t, "162", d_disk[CacheKeyOf(t)].data)
             ELSE Goto(t, "178", [k \in {th_asset[t]} |-> d_now])
    /\ UNCHANGED <<d_memory_cache, d_cache_timestamps, d_disk>>
    /\ OtherThanThreads

\* lines 162 and 178: self._memory_cache[cache_key] = cached_data / df
line_162_178_set_memory_cache ==
    /\ \E t \in Threads :
          /\ th_pc[t] \in {"162", "178"}
          /\ d_memory_cache' = Put(d_memory_cache, CacheKeyOf(t), th_data[t])
          /\ Goto(t, IF th_pc[t] = "162" THEN "163" ELSE "179", th_data[t])
    /\ UNCHANGED <<d_cache_timestamps, d_disk>>
    /\ OtherThanThreads

\* lines 163-164: self._cache_timestamps[cache_key] = datetime.now() and
\* return cached_data.copy()
line_163_set_timestamp_return ==
    /\ \E t \in Threads :
          /\ th_pc[t] = "163"
          /\ d_cache_timestamps' = Put(d_cache_timestamps, CacheKeyOf(t), d_now)
          /\ Finish(t, "returned", th_data[t])
    /\ UNCHANGED <<d_memory_cache, d_disk>>
    /\ OtherThanThreads

\* line 179: self._cache_timestamps[cache_key] = datetime.now()
line_179_set_timestamp ==
    /\ \E t \in Threads :
          /\ th_pc[t] = "179"
          /\ d_cache_timestamps' = Put(d_cache_timestamps, CacheKeyOf(t), d_now)
          /\ Goto(t, "180", th_data[t])
    /\ UNCHANGED <<d_memory_cache, d_disk>>
    /\ OtherThanThreads

\* lines 180-182: self._save_to_cache(df, cache_key) and return df.copy()
line_180_save_return ==
    /\ \E t \in Threads :
          /\ th_pc[t] = "180"
          /\ d_disk' = Put(d_disk, CacheKeyOf(t),
                           [data |-> th_data[t], mtime |-> d_now])
          /\ Finish(t, "returned", th_data[t])
    /\ UNCHANGED <<d_memory_cache, d_cache_timestamps>>
    /\ OtherThanThreads

\* a thread calls clear_cache()
thread_clear_cache ==
    /\ \E t \in Threads :
          /\ th_pc[t] = "idle"
          /\ th_pc' = [th_pc EXCEPT ![t] = "367"]
          /\ th_asset' = [th_asset EXCEPT ![t] = ""]
          /\ th_result' = [th_result EXCEPT ![t] = NoOutcome]
          /\ UNCHANGED th_data
    /\ UNCHANGED <<d_memory_cache, d_cache_timestamps, d_disk>>
    /\ OtherThanThreads

\* line 367: self._memory_cache.clear()
line_367_clear_memory_cache ==
    /\ \E t \in Threads :
          /\ th_pc[t] = "367"
          /\ d_memory_cache' = <<>>
          /\ Goto(t, "368", <<>>)
    /\ UNCHANGED <<d_cache_timestamps, d_disk>>
    /\ OtherThanThreads

\* line 368: self._cache_timestamps.clear()
line_368_clear_timestamps ==
    /\ \E t \in Threads :
          /\ th_pc[t] = "368"
          /\ d_cache_timestamps' = <<>>
          /\ Goto(t, "371", <<>>)
    /\ UNCHANGED <<d_memory_cache, d_disk>>
    /\ OtherThanThreads

\* lines 370-375: every .pkl file is unlinked
line_371_unlink ==
    /\ \E t \in Threads :
          /\ th_pc[t] = "371"
          /\ d_disk' = <<>>
          /\ Finish(t, "cleared", <<>>)
    /\ UNCHANGED <<d_memory_cache, d_cache_timestamps>>
    /\ OtherThanThreads

NextThreads ==
    \/ thread_tick
    \/ thread_load_asset_data
    \/ line_155_in_memory_cache
    \/ line_156_cache_timestamps
    \/ line_157_return_memory
    \/ line_160_load_from_cache
    \/ line_162_178_set_memory_cache
    \/ line_163_set_timestamp_return
    \/ line_179_set_timestamp
    \/ line_180_save_return
    \/ thread_clear_cache
    \/ line_367_clear_memory_cache
    \/ line_368_clear_timestamps
    \/ line_371_unlink

SpecThreads == InitCache /\ [][NextThreads]_vars

\* C27: when two threads share one MarketDataManager and call
\* load_asset_data for the same asset, or load_asset_data while the other
\* calls clear_cache, a thread that finds the key in the memory cache also
\* finds its timestamp: no call fails on the timestamp lookup, and every
\* call of load_asset_data returns the complete data of its asset
C27_TimestampFoundWithKey ==
    \A t \in Threads :
        /\ th_result[t].outcome # "KeyError"
        /\ (th_pc[t] = "156") => (CacheKeyOf(t) \in DOMAIN d_cache_timestamps)
        /\ (th_result[t].outcome = "returned") =>
              (DOMAIN th_result[t].data = {th_asset[t]})

====
